---- MODULE Spec2Model ----
(***************************************************************************)
(* Model of the CDP connection context of cdp-cli (src/src/context.ts):    *)
(* command correlation over one WebSocket, the console and network         *)
(* aggregators fed by the same 'message' event, and the channel's          *)
(* lifecycle.                                                              *)
(***************************************************************************)
EXTENDS Integers, Sequences, FiniteSets, TLC

(***************************************************************************)
(* Bounds of the model.                                                    *)
(***************************************************************************)
MaxCmds == 2
MaxDeliveries == 2
MaxNetDeliveries == 3
MaxAggDeliveries == 3
MaxConsoleDeliveries == 3
MaxRouteDeliveries == 3
MaxArgs == 2
MaxArgDeliveries == 1
MaxTargets == 3
MaxListDeliveries == 3
MaxFrameDeliveries == 3
MaxHistory == 2
MaxFillDeliveries == 9
MaxValueLen == 2
MaxEnrichDeliveries == 2
MaxPasses == 2
MaxProps == 12
MaxFilterDeliveries == 5
MaxPeerCmds == 2
MaxSendDeliveries == 2
MaxSessionDeliveries == 1
RandomSpace == 2

(***************************************************************************)
(* Program constants.                                                      *)
(***************************************************************************)
CommandTimeoutMs == 30000
PropertyLimit == 10
FirstMessageId == 1

TickMs == CommandTimeoutMs
MaxNow == CommandTimeoutMs

(***************************************************************************)
(* JavaScript's undefined, for string-valued and number-valued slots.      *)
(***************************************************************************)
UndefS == "undefined"
UndefN == -1
NaN == -2
NoId == 0
EmptyMap == [x \in {} |-> x]

(***************************************************************************)
(* JavaScript values carried by console arguments, and String(value).      *)
(***************************************************************************)
Str(s) == [t |-> "string", s |-> s, n |-> 0]
Num(n) == [t |-> "number", s |-> "", n |-> n]
Undefined == [t |-> "undefined", s |-> "", n |-> 0]
String(v) ==
  CASE v.t = "number" -> ToString(v.n)
    [] v.t = "undefined" -> "undefined"
    [] OTHER -> v.s

(* One RemoteObject of Runtime.consoleAPICalled. *)
Arg(type, value, description) ==
  [type |-> type, value |-> value, description |-> description]
(* JSON.stringify of a RemoteObject that has neither value nor description. *)
JSONstringify(arg) == <<"{\"type\":\"", arg.type, "\"}">>

RECURSIVE join(_, _)
join(pieces, sep) ==
  IF pieces = <<>> THEN <<>>
  ELSE IF Len(pieces) = 1 THEN Head(pieces)
  ELSE Head(pieces) \o <<sep>> \o join(Tail(pieces), sep)

(***************************************************************************)
(* Inbound payloads.  ok = FALSE is a payload JSON.parse rejects.  A       *)
(* decoded CDPMessage has the optional fields id, method, params, result   *)
(* and error; an absent field holds the undefined of its slot.             *)
(***************************************************************************)
NoRequest == [has |-> FALSE, url |-> UndefS, method |-> UndefS, headers |-> UndefS]
NoResponse ==
  [has |-> FALSE, url |-> UndefS, status |-> UndefN, headers |-> UndefS,
   encodedDataLength |-> UndefN]
NoDetails == [has |-> FALSE, text |-> UndefS, lineNumber |-> UndefN, url |-> UndefS]
NoParams ==
  [has |-> FALSE, requestId |-> UndefS, request |-> NoRequest, response |-> NoResponse,
   timestamp |-> UndefN, type |-> UndefS, encodedDataLength |-> UndefN,
   hasArgs |-> FALSE, args |-> <<>>, exceptionDetails |-> NoDetails]
EmptyParams == [NoParams EXCEPT !.has = TRUE]
NoError == [has |-> FALSE, message |-> UndefS]
EmptyMessage ==
  [ok |-> TRUE, id |-> NoId, method |-> UndefS, params |-> NoParams,
   result |-> UndefS, error |-> NoError]
Garbage == [EmptyMessage EXCEPT !.ok = FALSE]

ResultMsg(id, result) == [EmptyMessage EXCEPT !.id = id, !.result = result]
ErrorMsg(id, text) ==
  [EmptyMessage EXCEPT !.id = id, !.error = [has |-> TRUE, message |-> text]]
BareIdMsg(id) == [EmptyMessage EXCEPT !.id = id]

requestWillBeSent(k, url, method, type, ts) ==
  [EmptyMessage EXCEPT
     !.method = "Network.requestWillBeSent",
     !.params = [EmptyParams EXCEPT
        !.requestId = k,
        !.request = [has |-> TRUE, url |-> url, method |-> method, headers |-> "reqHeaders"],
        !.timestamp = ts,
        !.type = type]]
responseReceived(k, url, status, size) ==
  [EmptyMessage EXCEPT
     !.method = "Network.responseReceived",
     !.params = [EmptyParams EXCEPT
        !.requestId = k,
        !.response = [has |-> TRUE, url |-> url, status |-> status,
                      headers |-> "respHeaders", encodedDataLength |-> size]]]
loadingFinished(k, size) ==
  [EmptyMessage EXCEPT
     !.method = "Network.loadingFinished",
     !.params = [EmptyParams EXCEPT !.requestId = k, !.encodedDataLength = size]]
consoleAPICalled(type, args, ts) ==
  [EmptyMessage EXCEPT
     !.method = "Runtime.consoleAPICalled",
     !.params = [EmptyParams EXCEPT
        !.type = type, !.hasArgs = TRUE, !.args = args, !.timestamp = ts]]
exceptionThrown(text, line, url, ts) ==
  [EmptyMessage EXCEPT
     !.method = "Runtime.exceptionThrown",
     !.params = [EmptyParams EXCEPT
        !.timestamp = ts,
        !.exceptionDetails = [has |-> TRUE, text |-> text, lineNumber |-> line, url |-> url]]]
(* A notification without params, and one whose params lack the nested object. *)
NoParamsMsg(method) == [EmptyMessage EXCEPT !.method = method]
EmptyParamsMsg(method, k) ==
  [EmptyMessage EXCEPT !.method = method, !.params = [EmptyParams EXCEPT !.requestId = k]]

Methods == {"Runtime.enable"}
Results == {"ra", "rb"}

(***************************************************************************)
(* State.                                                                  *)
(*   messageId        the context's command-id counter                     *)
(*   calls            one record per sendCommand call, in call order: the  *)
(*                    id it closed over, its promise and its timer's due   *)
(*                    time                                                 *)
(*   timers           calls whose setTimeout is armed                      *)
(*   listeners        the WebSocket's 'message' listeners, in registration *)
(*                    order                                                *)
(*   sent             the commands handed to ws.send, in order             *)
(*   ws               "none" before connect, then "open", then "closed"    *)
(*   now              Date.now(), in milliseconds since construction       *)
(*   requests         the assembling map of setupNetworkCollection         *)
(*   networkRequests  keys of the context's networkRequests map, in        *)
(*                    insertion order; its values are the very objects     *)
(*                    held by requests                                     *)
(*   consoleMessages  the context's consoleMessages map, in insertion      *)
(*                    order                                                *)
(*   escaped          number of exceptions thrown out of 'message'         *)
(*                    listeners                                            *)
(*   hist             the payloads emitted on the channel, in order, each  *)
(*                    with the kinds of listeners registered at its emit   *)
(***************************************************************************)
(***************************************************************************)
(* The target directory (GET /json) and the page lookup.  Ids, titles and  *)
(* selectors are strings as sequences of characters, so that               *)
(* String.prototype.includes is computed.                                  *)
(***************************************************************************)
Target(id, title, type) == [id |-> id, title |-> title, type |-> type]
NoPage == Target(<<>>, <<>>, UndefS)

(* title.includes(idOrTitle) *)
includes(text, part) ==
  \E i \in 0 .. (Len(text) - Len(part)) : SubSeq(text, i + 1, i + Len(part)) = part

(* getPages that returns the targets of every type. *)
getPages_AllTypes(directory) == directory

(* pages.filter(p => p.type === 'page') *)
getPages(directory) == SelectSeq(directory, LAMBDA p : p.type = "page")

(* pages.find(p => p.id === idOrTitle || p.title.includes(idOrTitle)) *)
RECURSIVE find(_, _)
find(pages, idOrTitle) ==
  IF pages = <<>> THEN NoPage
  ELSE IF Head(pages).id = idOrTitle \/ includes(Head(pages).title, idOrTitle)
    THEN Head(pages)
    ELSE find(Tail(pages), idOrTitle)

FetchFailed == <<"Failed to fetch pages: ", "Internal Server Error">>
PageNotFound(idOrTitle) == <<"Page not found: ", idOrTitle>>
ConnectFailed == <<"connect ECONNREFUSED">>

(* findPage, with ok the response.ok of the directory fetch. *)
findPage(directory, ok, idOrTitle) ==
  IF ~ok THEN [thrown |-> TRUE, error |-> FetchFailed, page |-> NoPage]
  ELSE LET page == find(getPages(directory), idOrTitle)
       IN IF page = NoPage
            THEN [thrown |-> TRUE, error |-> PageNotFound(idOrTitle), page |-> NoPage]
            ELSE [thrown |-> FALSE, error |-> <<>>, page |-> page]

(***************************************************************************)
(* Array.prototype.slice(start) and the tail limit of listConsole.         *)
(***************************************************************************)
ShowAll == -1
MsPerSecond == 1000
Max(a, b) == IF a > b THEN a ELSE b
Min(a, b) == IF a < b THEN a ELSE b
slice(array, start) ==
  LET from == IF start < 0 THEN Max(Len(array) + start, 0) ELSE Min(start, Len(array))
  IN SubSeq(array, from + 1, Len(array))
tailOf(messages, tail) ==
  IF tail # ShowAll /\ Len(messages) > tail THEN slice(messages, 0 - tail) ELSE messages

(***************************************************************************)
(* One run of listConsole or listNetwork: its position, its options as     *)
(* they are read, and what it has output.                                  *)
(***************************************************************************)
NotStarted ==
  [op |-> "none", pc |-> "idle", selector |-> <<>>, directory |-> <<>>, fetched |-> FALSE,
   page |-> NoPage, error |-> <<>>, exitCode |-> 0, connects |-> 0, closes |-> 0,
   enableAt |-> 0, windowEnd |-> 0, snapshotAt |-> 0, type |-> UndefS, tail |-> ShowAll,
   snapshot |-> <<>>, filtered |-> <<>>, output |-> <<>>,
   answers |-> EmptyMap, passes |-> 0, value |-> <<>>, step |-> 0,
   action |-> UndefS, history |-> [has |-> FALSE, currentIndex |-> 0, entries |-> <<>>]]

(***************************************************************************)
(* A second CDPContext with a channel of its own: its fields as the class  *)
(* initialises them.                                                       *)
(***************************************************************************)
NewContext ==
  [messageId |-> FirstMessageId, calls |-> <<>>, timers |-> {}, listeners |-> <<>>,
   sent |-> <<>>, ws |-> "none"]

VARIABLES messageId, calls, timers, listeners, sent, ws, now,
          requests, networkRequests, consoleMessages, escaped, hist, run, peer

vars ==
  <<messageId, calls, timers, listeners, sent, ws, now,
    requests, networkRequests, consoleMessages, escaped, hist, run, peer>>

Init ==
  /\ messageId = FirstMessageId
  /\ calls = <<>>
  /\ timers = {}
  /\ listeners = <<>>
  /\ sent = <<>>
  /\ ws = "none"
  /\ now = 0
  /\ requests = EmptyMap
  /\ networkRequests = <<>>
  /\ consoleMessages = <<>>
  /\ escaped = 0
  /\ hist = <<>>
  /\ run = NotStarted
  /\ peer = NewContext

(***************************************************************************)
(* The part of the state that 'message' listeners read and write.          *)
(***************************************************************************)
Store ==
  [calls |-> calls, timers |-> timers, listeners |-> listeners,
   requests |-> requests, networkRequests |-> networkRequests,
   consoleMessages |-> consoleMessages, now |-> now, thrown |-> FALSE]

Throw(S) == [S EXCEPT !.thrown = TRUE]

(***************************************************************************)
(* A promise settles on the first resolve or reject; later ones are        *)
(* ignored.  settles counts the resolve and reject invocations.            *)
(***************************************************************************)
PendingCall(id, method, due, at) ==
  [id |-> id, method |-> method, state |-> "pending", value |-> UndefS,
   error |-> <<>>, settles |-> 0, due |-> due, histAt |-> at]

resolve(c, value) ==
  IF c.state = "pending"
    THEN [c EXCEPT !.state = "resolved", !.value = value, !.settles = @ + 1]
    ELSE [c EXCEPT !.settles = @ + 1]

reject(c, error) ==
  IF c.state = "pending"
    THEN [c EXCEPT !.state = "rejected", !.error = error, !.settles = @ + 1]
    ELSE [c EXCEPT !.settles = @ + 1]

TimeoutError(method) == <<"Command timeout: ", method>>
RemoteError(error) ==
  IF error.message # UndefS /\ error.message # ""
    THEN <<error.message>> ELSE <<"CDP command failed">>

CmdListener(k, id) == [kind |-> "cmd", call |-> k, id |-> id]
ConsoleListener == [kind |-> "console", call |-> 0, id |-> NoId]
NetworkListener == [kind |-> "network", call |-> 0, id |-> NoId]

(* EventEmitter.off: drop the listener, keep the order of the others. *)
off(ls, l) == SelectSeq(ls, LAMBDA x : x # l)

(* messageHandler taking any response for its own. *)
messageHandler_AnyId(k, id, m, S) ==
  IF ~m.ok THEN Throw(S)
  ELSE IF m.id # NoId
    THEN [S EXCEPT
            !.timers = @ \ {k},
            !.listeners = off(@, CmdListener(k, id)),
            !.calls[k] =
              IF m.error.has THEN reject(@, RemoteError(m.error))
              ELSE resolve(@, m.result)]
    ELSE S

(* messageHandler that stays registered after its response. *)
messageHandler_NoOff(k, id, m, S) ==
  IF ~m.ok THEN Throw(S)
  ELSE IF m.id = id
    THEN [S EXCEPT
            !.timers = @ \ {k},
            !.calls[k] =
              IF m.error.has THEN reject(@, RemoteError(m.error))
              ELSE resolve(@, m.result)]
    ELSE S

(* messageHandler that does not look at the error field. *)
messageHandler_NoErrorCheck(k, id, m, S) ==
  IF ~m.ok THEN Throw(S)
  ELSE IF m.id = id
    THEN [S EXCEPT
            !.timers = @ \ {k},
            !.listeners = off(@, CmdListener(k, id)),
            !.calls[k] = resolve(@, m.result)]
    ELSE S

(***************************************************************************)
(* sendCommand's messageHandler, closed over call k and its id.            *)
(***************************************************************************)
messageHandler(k, id, m, S) ==
  IF ~m.ok THEN Throw(S)
  ELSE IF m.id = id
    THEN [S EXCEPT
            !.timers = @ \ {k},
            !.listeners = off(@, CmdListener(k, id)),
            !.calls[k] =
              IF m.error.has THEN reject(@, RemoteError(m.error))
              ELSE resolve(@, m.result)]
    ELSE S

(***************************************************************************)
(* Map.set on an insertion-ordered map: a new key goes last, a known key   *)
(* keeps its place.                                                        *)
(***************************************************************************)
Range(seq) == {seq[i] : i \in DOMAIN seq}
(* A set that adds the key again when the map already holds it. *)
MapSetKey_AlwaysAppend(keys, k) == Append(keys, k)

MapSetKey(keys, k) == IF k \in Range(keys) THEN keys ELSE Append(keys, k)
(* A set that stores the value under every key of the map. *)
MapPut_EveryKey(map, k, v) == [x \in DOMAIN map \cup {k} |-> v]

MapPut(map, k, v) == [x \in DOMAIN map \cup {k} |-> IF x = k THEN v ELSE map[x]]

NoEntry ==
  [id |-> UndefS, url |-> UndefS, method |-> UndefS, status |-> UndefN,
   type |-> UndefS, size |-> UndefN, timestamp |-> UndefN,
   requestHeaders |-> UndefS, responseHeaders |-> UndefS]

TimesThousand(t) == IF t = UndefN THEN NaN ELSE t * 1000
OrEmpty(s) == IF s = UndefS \/ s = "" THEN "" ELSE s

(* requestWillBeSent that leaves the url and method of an existing entry alone. *)
onRequestWillBeSent_KeepsProvisional(p, S) ==
  IF ~p.has \/ ~p.request.has THEN Throw(S)
  ELSE IF p.requestId \in DOMAIN S.requests
    THEN [S EXCEPT !.requests[p.requestId] =
            [@ EXCEPT !.timestamp = TimesThousand(p.timestamp),
                      !.type = p.type,
                      !.requestHeaders = p.request.headers]]
    ELSE [S EXCEPT !.requests = MapPut(@, p.requestId,
            [NoEntry EXCEPT !.id = p.requestId,
                            !.url = p.request.url,
                            !.method = p.request.method,
                            !.timestamp = TimesThousand(p.timestamp),
                            !.type = p.type,
                            !.requestHeaders = p.request.headers])]

(* requestWillBeSent that replaces an existing entry by a fresh one. *)
onRequestWillBeSent_Replaces(p, S) ==
  IF ~p.has \/ ~p.request.has THEN Throw(S)
  ELSE [S EXCEPT !.requests = MapPut(@, p.requestId,
          [NoEntry EXCEPT !.id = p.requestId,
                          !.url = p.request.url,
                          !.method = p.request.method,
                          !.timestamp = TimesThousand(p.timestamp),
                          !.type = p.type,
                          !.requestHeaders = p.request.headers])]

(***************************************************************************)
(* The 'message' listener of setupNetworkCollection.                       *)
(***************************************************************************)
onRequestWillBeSent(p, S) ==
  IF ~p.has \/ ~p.request.has THEN Throw(S)
  ELSE IF p.requestId \in DOMAIN S.requests
    THEN [S EXCEPT !.requests[p.requestId] =
            [@ EXCEPT !.url = p.request.url,
                      !.method = p.request.method,
                      !.timestamp = TimesThousand(p.timestamp),
                      !.type = p.type,
                      !.requestHeaders = p.request.headers]]
    ELSE [S EXCEPT !.requests = MapPut(@, p.requestId,
            [NoEntry EXCEPT !.id = p.requestId,
                            !.url = p.request.url,
                            !.method = p.request.method,
                            !.timestamp = TimesThousand(p.timestamp),
                            !.type = p.type,
                            !.requestHeaders = p.request.headers])]

(* responseReceived that also writes response.url into an existing entry. *)
onResponseReceived_OverwritesUrl(p, S) ==
  IF ~p.has \/ ~p.response.has THEN Throw(S)
  ELSE
    LET req == IF p.requestId \in DOMAIN S.requests
                 THEN [S.requests[p.requestId] EXCEPT !.url = OrEmpty(p.response.url)]
                 ELSE [NoEntry EXCEPT !.id = p.requestId,
                                      !.url = OrEmpty(p.response.url),
                                      !.method = "GET",
                                      !.timestamp = S.now]
        withStatus == [req EXCEPT !.status = p.response.status,
                                  !.responseHeaders = p.response.headers]
        withSize == IF p.response.encodedDataLength # UndefN
                      THEN [withStatus EXCEPT !.size = p.response.encodedDataLength]
                      ELSE withStatus
    IN [S EXCEPT !.requests = MapPut(@, p.requestId, withSize),
                 !.networkRequests = MapSetKey(@, p.requestId)]

(* responseReceived that leaves an entry alone once it has a status. *)
onResponseReceived_KeepsFirst(p, S) ==
  IF ~p.has \/ ~p.response.has THEN Throw(S)
  ELSE IF p.requestId \in Range(S.networkRequests) THEN S
  ELSE
    LET req == IF p.requestId \in DOMAIN S.requests
                 THEN S.requests[p.requestId]
                 ELSE [NoEntry EXCEPT !.id = p.requestId,
                                      !.url = OrEmpty(p.response.url),
                                      !.method = "GET",
                                      !.timestamp = S.now]
        withStatus == [req EXCEPT !.status = p.response.status,
                                  !.responseHeaders = p.response.headers]
        withSize == IF p.response.encodedDataLength # UndefN
                      THEN [withStatus EXCEPT !.size = p.response.encodedDataLength]
                      ELSE withStatus
    IN [S EXCEPT !.requests = MapPut(@, p.requestId, withSize),
                 !.networkRequests = MapSetKey(@, p.requestId)]

onResponseReceived(p, S) ==
  IF ~p.has \/ ~p.response.has THEN Throw(S)
  ELSE
    LET req == IF p.requestId \in DOMAIN S.requests
                 THEN S.requests[p.requestId]
                 ELSE [NoEntry EXCEPT !.id = p.requestId,
                                      !.url = OrEmpty(p.response.url),
                                      !.method = "GET",
                                      !.timestamp = S.now]
        withStatus == [req EXCEPT !.status = p.response.status,
                                  !.responseHeaders = p.response.headers]
        withSize == IF p.response.encodedDataLength # UndefN
                      THEN [withStatus EXCEPT !.size = p.response.encodedDataLength]
                      ELSE withStatus
    IN [S EXCEPT !.requests = MapPut(@, p.requestId, withSize),
                 !.networkRequests = MapSetKey(@, p.requestId)]

(* loadingFinished that adds the length to the size already recorded. *)
onLoadingFinished_Accumulates(p, S) ==
  IF ~p.has THEN Throw(S)
  ELSE IF p.requestId \in Range(S.networkRequests)
    THEN [S EXCEPT !.requests[p.requestId].size =
            IF @ = UndefN THEN p.encodedDataLength ELSE @ + p.encodedDataLength]
    ELSE S

(* loadingFinished that stores a size for a key the table does not hold. *)
onLoadingFinished_Creates(p, S) ==
  IF ~p.has THEN Throw(S)
  ELSE IF p.requestId \in Range(S.networkRequests)
    THEN [S EXCEPT !.requests[p.requestId].size = p.encodedDataLength]
    ELSE [S EXCEPT
            !.requests = MapPut(@, p.requestId,
               [NoEntry EXCEPT !.id = p.requestId, !.size = p.encodedDataLength]),
            !.networkRequests = MapSetKey(@, p.requestId)]

onLoadingFinished(p, S) ==
  IF ~p.has THEN Throw(S)
  ELSE IF p.requestId \in Range(S.networkRequests)
    THEN [S EXCEPT !.requests[p.requestId].size = p.encodedDataLength]
    ELSE S

networkHandler(m, S) ==
  IF ~m.ok THEN Throw(S)
  ELSE CASE m.method = "Network.requestWillBeSent" -> onRequestWillBeSent(m.params, S)
         [] m.method = "Network.responseReceived" -> onResponseReceived(m.params, S)
         [] m.method = "Network.loadingFinished" -> onLoadingFinished(m.params, S)
         [] OTHER -> S

(***************************************************************************)
(* The 'message' listener of setupConsoleCollection.  r is the value       *)
(* Math.random() contributes to the entry's id.                            *)
(***************************************************************************)
(* The mapping of one argument that prefers the description to the value. *)
argText_DescriptionFirst(arg) ==
  IF arg.description # UndefS THEN <<arg.description>>
  ELSE IF arg.value.t # "undefined" THEN <<String(arg.value)>>
  ELSE JSONstringify(arg)

argText(arg) ==
  IF arg.value.t # "undefined" THEN <<String(arg.value)>>
  ELSE IF arg.description # UndefS THEN <<arg.description>>
  ELSE JSONstringify(arg)

NoConsoleMsg ==
  [id |-> <<0, 0>>, type |-> UndefS, timestamp |-> UndefN, text |-> <<>>,
   source |-> UndefS, line |-> UndefN, url |-> UndefS, hasArgs |-> FALSE, args |-> <<>>]

OrNow(ts, t) == IF ts = UndefN \/ ts = 0 \/ ts = NaN THEN t ELSE ts

(* consoleMessages.set(consoleMsg.id, consoleMsg) *)
ConsoleSet(msgs, e) ==
  IF \E i \in DOMAIN msgs : msgs[i].id = e.id
    THEN [i \in DOMAIN msgs |-> IF msgs[i].id = e.id THEN e ELSE msgs[i]]
    ELSE Append(msgs, e)

onConsoleAPICalled(p, S, r) ==
  IF ~p.has \/ ~p.hasArgs THEN Throw(S)
  ELSE [S EXCEPT !.consoleMessages = ConsoleSet(@,
          [NoConsoleMsg EXCEPT
             !.id = <<S.now, r>>,
             !.type = p.type,
             !.timestamp = OrNow(p.timestamp, S.now),
             !.text = join([i \in DOMAIN p.args |-> argText(p.args[i])], " "),
             !.source = "console-api",
             !.hasArgs = TRUE,
             !.args = p.args])]

onExceptionThrown(p, S, r) ==
  IF ~p.has \/ ~p.exceptionDetails.has THEN Throw(S)
  ELSE [S EXCEPT !.consoleMessages = ConsoleSet(@,
          [NoConsoleMsg EXCEPT
             !.id = <<S.now, r>>,
             !.type = "error",
             !.timestamp = OrNow(p.timestamp, S.now),
             !.text = <<p.exceptionDetails.text>>,
             !.source = "exception",
             !.line = p.exceptionDetails.lineNumber,
             !.url = p.exceptionDetails.url])]

(* A console listener that takes every method for a console call. *)
consoleHandler_AnyMethod(m, S, r) ==
  IF ~m.ok THEN Throw(S)
  ELSE CASE m.method = "Runtime.exceptionThrown" -> onExceptionThrown(m.params, S, r)
         [] OTHER -> onConsoleAPICalled(m.params, S, r)

consoleHandler(m, S, r) ==
  IF ~m.ok THEN Throw(S)
  ELSE CASE m.method = "Runtime.consoleAPICalled" -> onConsoleAPICalled(m.params, S, r)
         [] m.method = "Runtime.exceptionThrown" -> onExceptionThrown(m.params, S, r)
         [] OTHER -> S

Listen(l, m, S, r) ==
  CASE l.kind = "cmd" -> messageHandler(l.call, l.id, m, S)
    [] l.kind = "console" -> consoleHandler(m, S, r)
    [] l.kind = "network" -> networkHandler(m, S)

(***************************************************************************)
(* EventEmitter.emit: the listeners registered when the emit starts run    *)
(* in registration order; an exception thrown by one leaves emit and the   *)
(* later listeners are not called.                                         *)
(***************************************************************************)
RECURSIVE emit(_, _, _, _)
emit(ls, m, S, r) ==
  IF ls = <<>> \/ S.thrown THEN S
  ELSE emit(Tail(ls), m, Listen(Head(ls), m, S, r), r)

(* Array.from(this.networkRequests.values()) *)
getNetworkRequests(S) ==
  [i \in DOMAIN S.networkRequests |-> S.requests[S.networkRequests[i]]]

(* Array.from(this.consoleMessages.values()) *)
getConsoleMessages(S) == S.consoleMessages

(* A filter that keeps what has a type at all. *)
filterByType_AnyType(messages, type) == SelectSeq(messages, LAMBDA m : m.type # UndefS)

(* messages.filter(m => m.type === options.type) *)
filterByType(messages, type) == SelectSeq(messages, LAMBDA m : m.type = type)

(* obj[name] of a JavaScript object: undefined for a property it does not have. *)
Prop(obj, name) == IF name \in DOMAIN obj THEN obj[name] ELSE UndefS

(***************************************************************************)
(* Operations.                                                             *)
(***************************************************************************)
Connect ==
  /\ ws = "none"
  /\ ws' = "open"
  /\ UNCHANGED <<messageId, calls, timers, listeners, sent, now,
                 requests, networkRequests, consoleMessages, escaped, hist>>

SetupConsoleCollection ==
  /\ ws = "open"
  /\ ConsoleListener \notin Range(listeners)
  /\ listeners' = Append(listeners, ConsoleListener)
  /\ UNCHANGED <<messageId, calls, timers, sent, ws, now,
                 requests, networkRequests, consoleMessages, escaped, hist>>

SetupNetworkCollection ==
  /\ ws = "open"
  /\ NetworkListener \notin Range(listeners)
  /\ listeners' = Append(listeners, NetworkListener)
  /\ UNCHANGED <<messageId, calls, timers, sent, ws, now,
                 requests, networkRequests, consoleMessages, escaped, hist>>

(* this.messageId++ *)
postIncrement_Stuck(n) == n
postIncrement(n) == n + 1

SendCommand(method) ==
  /\ ws # "none"
  /\ Len(calls) < MaxCmds
  /\ LET id == messageId
         k == Len(calls) + 1
     IN /\ messageId' = postIncrement(messageId)
        /\ calls' = Append(calls, PendingCall(id, method, now + CommandTimeoutMs, Len(hist)))
        /\ timers' = timers \cup {k}
        /\ listeners' = Append(listeners, CmdListener(k, id))
        /\ sent' = Append(sent, [id |-> id, method |-> method])
  /\ UNCHANGED <<ws, now, requests, networkRequests, consoleMessages, escaped, hist>>

Deliver(m, r) ==
  /\ ws = "open"
  /\ LET S == emit(listeners, m, Store, r)
     IN /\ calls' = S.calls
        /\ timers' = S.timers
        /\ listeners' = S.listeners
        /\ requests' = S.requests
        /\ networkRequests' = S.networkRequests
        /\ consoleMessages' = S.consoleMessages
        /\ escaped' = IF S.thrown THEN escaped + 1 ELSE escaped
        /\ hist' = Append(hist, [msg |-> m, heard |-> {l.kind : l \in Range(listeners)}])
  /\ UNCHANGED <<messageId, sent, ws, now>>

(* The timeout callback without its ws.off. *)
Timeout_NoOff(k) ==
  /\ k \in timers
  /\ now >= calls[k].due
  /\ timers' = timers \ {k}
  /\ calls' = [calls EXCEPT ![k] = reject(@, TimeoutError(@.method))]
  /\ UNCHANGED <<messageId, listeners, sent, ws, now, requests, networkRequests,
                 consoleMessages, escaped, hist>>

(* The callback of sendCommand's setTimeout. *)
Timeout(k) ==
  /\ k \in timers
  /\ now >= calls[k].due
  /\ timers' = timers \ {k}
  /\ listeners' = off(listeners, CmdListener(k, calls[k].id))
  /\ calls' = [calls EXCEPT ![k] = reject(@, TimeoutError(@.method))]
  /\ UNCHANGED <<messageId, sent, ws, now, requests, networkRequests,
                 consoleMessages, escaped, hist>>

Tick ==
  /\ now + TickMs <= MaxNow
  /\ \A k \in timers : now < calls[k].due
  /\ now' = now + TickMs
  /\ UNCHANGED <<messageId, calls, timers, listeners, sent, ws,
                 requests, networkRequests, consoleMessages, escaped, hist>>

Close ==
  /\ ws = "open"
  /\ ws' = "closed"
  /\ UNCHANGED <<messageId, calls, timers, listeners, sent, now,
                 requests, networkRequests, consoleMessages, escaped, hist>>

(***************************************************************************)
(* listConsole and listNetwork, statement by statement.                    *)
(***************************************************************************)
ctx ==
  <<messageId, calls, timers, listeners, sent, ws, now,
    requests, networkRequests, consoleMessages, escaped, hist>>

Ops == {"listConsole", "listNetwork"}
EnableMethod(op) == IF op = "listConsole" THEN "Runtime.enable" ELSE "Network.enable"

(* catch: outputError, then process.exit(1), which ends the process there. *)
exit(r, message) == [r EXCEPT !.pc = "exited", !.error = message, !.exitCode = 1]

(* A lookup that goes on to connect although no page was found. *)
FindPage_GoesOn(op, directory, ok, idOrTitle) ==
  /\ run.pc = "idle"
  /\ LET found == findPage(directory, ok, idOrTitle)
     IN run' = [run EXCEPT !.op = op, !.selector = idOrTitle, !.directory = directory,
                           !.fetched = ok, !.pc = "connect", !.page = found.page,
                           !.error = found.error]
  /\ UNCHANGED ctx

(* const page = await context.findPage(options.page) *)
FindPage(op, directory, ok, idOrTitle) ==
  /\ run.pc = "idle"
  /\ LET found == findPage(directory, ok, idOrTitle)
         started == [run EXCEPT !.op = op, !.selector = idOrTitle,
                                !.directory = directory, !.fetched = ok]
     IN run' = IF found.thrown THEN exit(started, found.error)
               ELSE [started EXCEPT !.pc = "connect", !.page = found.page]
  /\ UNCHANGED ctx

(* ws = await context.connect(page): the socket opens, or its 'error' rejects. *)
ConnectOpen ==
  /\ run.pc = "connect"
  /\ Connect
  /\ run' = [run EXCEPT !.pc = "setup", !.connects = @ + 1]

ConnectError ==
  /\ run.pc = "connect"
  /\ run' = exit([run EXCEPT !.connects = @ + 1], ConnectFailed)
  /\ UNCHANGED ctx

(* context.setupConsoleCollection(ws) or context.setupNetworkCollection(ws) *)
SetupCollection ==
  /\ run.pc = "setup"
  /\ IF run.op = "listConsole" THEN SetupConsoleCollection ELSE SetupNetworkCollection
  /\ run' = [run EXCEPT !.pc = "enable"]

(* context.sendCommand(ws, 'Runtime.enable'), up to its await. *)
EnableDomain ==
  /\ run.pc = "enable"
  /\ SendCommand(EnableMethod(run.op))
  /\ run' = [run EXCEPT !.pc = "await", !.enableAt = Len(hist)]

(* The await of sendCommand ends: the window timer is set, or the catch runs. *)
ContinuationDue == run.pc = "await" /\ calls[Len(calls)].state # "pending"
EnableAnswered(duration) ==
  /\ ContinuationDue
  /\ run' = IF calls[Len(calls)].state = "resolved"
              THEN [run EXCEPT !.pc = "window", !.windowEnd = now + duration * MsPerSecond]
              ELSE exit(run, calls[Len(calls)].error)
  /\ UNCHANGED ctx

(* The window timer fires: snapshot, filter, tail, output, and the finally. *)
Collect(type, tail) ==
  /\ run.pc = "window"
  /\ now >= run.windowEnd
  /\ Close
  /\ LET snapshot == IF run.op = "listConsole" THEN getConsoleMessages(Store)
                                               ELSE getNetworkRequests(Store)
         filtered == IF type # UndefS THEN filterByType(snapshot, type) ELSE snapshot
         output == IF run.op = "listConsole" THEN tailOf(filtered, tail) ELSE filtered
     IN run' = [run EXCEPT !.pc = "done", !.snapshotAt = Len(hist), !.type = type,
                           !.tail = tail, !.snapshot = snapshot, !.filtered = filtered,
                           !.output = output, !.closes = @ + 1]

CmdIds == 1 .. MaxCmds
CmdInbound ==
  {ResultMsg(i, res) : i \in CmdIds, res \in Results}
    \cup {ErrorMsg(i, "Command not found") : i \in CmdIds}
    \cup {ErrorMsg(FirstMessageId, UndefS), BareIdMsg(FirstMessageId), Garbage}

NextCmd ==
  \/ Connect /\ UNCHANGED <<run, peer>>
  \/ \E method \in Methods : SendCommand(method) /\ UNCHANGED <<run, peer>>
  \/ \E m \in CmdInbound : Len(hist) < MaxDeliveries /\ Deliver(m, 1) /\ UNCHANGED <<run, peer>>
  \/ \E k \in 1 .. MaxCmds : Timeout(k) /\ UNCHANGED <<run, peer>>
  \/ Tick /\ UNCHANGED <<run, peer>>

SpecCmd == Init /\ [][NextCmd]_vars

(***************************************************************************)
(* The network aggregator alone: one connection, the network listener     *)
(* registered right after connect as listNetwork does, then the            *)
(* notifications of two request keys, well-formed and malformed.           *)
(***************************************************************************)
Keys == {"r1", "r2"}
Starts(k) ==
  {requestWillBeSent(k, "https://x", "POST", "fetch", 1)}
    \cup (IF k = "r1" THEN {requestWillBeSent(k, "https://y", "GET", "xhr", 2)} ELSE {})
Responses(k) ==
  {responseReceived(k, "https://x", 200, UndefN)}
    \cup (IF k = "r1" THEN {responseReceived(k, UndefS, 404, 1234)} ELSE {})
Finishes(k) ==
  {loadingFinished(k, 4567)}
    \cup (IF k = "r1" THEN {loadingFinished(k, 500)} ELSE {})
NetMalformed ==
  {Garbage,
   EmptyParamsMsg("Network.requestWillBeSent", "r1"),
   EmptyParamsMsg("Network.responseReceived", "r1")}
NetInbound ==
  UNION {Starts(k) \cup Responses(k) \cup Finishes(k) : k \in Keys} \cup NetMalformed

NextNet ==
  \/ Connect /\ UNCHANGED <<run, peer>>
  \/ SetupNetworkCollection /\ UNCHANGED <<run, peer>>
  \/ \E m \in NetInbound :
       /\ NetworkListener \in Range(listeners)
       /\ Len(hist) < MaxNetDeliveries
       /\ Deliver(m, 1)
       /\ UNCHANGED <<run, peer>>
  \/ Tick /\ UNCHANGED <<run, peer>>

SpecNet == Init /\ [][NextNet]_vars

(***************************************************************************)
(* Both aggregators on one channel: console and network notifications      *)
(* arrive after both listeners are registered.                             *)
(***************************************************************************)
Hello == consoleAPICalled("log", <<Arg("string", Str("Hello world"), UndefS)>>, 1698234567)
AggInbound ==
  {Hello} \cup Starts("r2") \cup Responses("r2") \cup Finishes("r1") \cup Finishes("r2")

NextAgg ==
  \/ Connect /\ UNCHANGED <<run, peer>>
  \/ SetupConsoleCollection /\ UNCHANGED <<run, peer>>
  \/ SetupNetworkCollection /\ UNCHANGED <<run, peer>>
  \/ \E m \in AggInbound :
       /\ ConsoleListener \in Range(listeners)
       /\ NetworkListener \in Range(listeners)
       /\ Len(hist) < MaxAggDeliveries
       /\ Deliver(m, 1)
       /\ UNCHANGED <<run, peer>>
  \/ Tick /\ UNCHANGED <<run, peer>>

SpecAgg == Init /\ [][NextAgg]_vars

(***************************************************************************)
(* The console aggregator alone: console calls and exceptions arrive in    *)
(* any interleaving, several of them within one millisecond, each with     *)
(* any of the suffixes Math.random can give.                               *)
(***************************************************************************)
ErrorOccurred ==
  consoleAPICalled("error", <<Arg("string", Str("Error occurred"), UndefS)>>, 1698234568)
Uncaught == exceptionThrown("Uncaught TypeError", 42, "https://x/app.js", 1698234569)
ConsoleInbound == {Hello, ErrorOccurred, Uncaught}

NextConsole ==
  \/ Connect /\ UNCHANGED <<run, peer>>
  \/ SetupConsoleCollection /\ UNCHANGED <<run, peer>>
  \/ \E m \in ConsoleInbound, r \in 1 .. RandomSpace :
       /\ ConsoleListener \in Range(listeners)
       /\ Len(hist) < MaxConsoleDeliveries
       /\ Deliver(m, r)
       /\ UNCHANGED <<run, peer>>
  \/ Tick /\ UNCHANGED <<run, peer>>

SpecConsole == Init /\ [][NextConsole]_vars

(***************************************************************************)
(* Console calls with every list of up to MaxArgs arguments: a string, a   *)
(* number that has a description too, an object that has only a            *)
(* description, and a value that has neither.                              *)
(***************************************************************************)
ArgPool ==
  {Arg("string", Str("Count:"), UndefS),
   Arg("number", Num(0), "zero"),
   Arg("object", Undefined, "Object"),
   Arg("symbol", Undefined, UndefS)}
ArgLists == UNION {[1 .. n -> ArgPool] : n \in 0 .. MaxArgs}
ArgInbound == {consoleAPICalled(type, args, 1698234567) : type \in {"log", "warning"}, args \in ArgLists}

NextArgs ==
  \/ Connect /\ UNCHANGED <<run, peer>>
  \/ SetupConsoleCollection /\ UNCHANGED <<run, peer>>
  \/ \E m \in ArgInbound :
       /\ ConsoleListener \in Range(listeners)
       /\ Len(hist) < MaxArgDeliveries
       /\ Deliver(m, 1)
       /\ UNCHANGED <<run, peer>>
  \/ Tick /\ UNCHANGED <<run, peer>>

SpecArgs == Init /\ [][NextArgs]_vars

(***************************************************************************)
(* Routing: one command channel with both aggregators registered receives  *)
(* responses, subscribed notifications, notifications of methods nobody    *)
(* subscribes to, and messages that carry both an id and a subscribed      *)
(* method.  One command is sent once both listeners are registered, as the *)
(* collection commands do.                                                 *)
(***************************************************************************)
Subscribed ==
  {"Runtime.consoleAPICalled", "Runtime.exceptionThrown",
   "Network.requestWillBeSent", "Network.responseReceived", "Network.loadingFinished"}
WithId(m, id) == [m EXCEPT !.id = id]
Hybrids ==
  {WithId(Hello, FirstMessageId),
   WithId(responseReceived("r1", "https://x", 200, UndefN), FirstMessageId)}
Unsubscribed ==
  {NoParamsMsg("Page.loadEventFired"),
   [Hello EXCEPT !.method = "Log.entryAdded"],
   [loadingFinished("r1", 4567) EXCEPT !.method = "Network.dataReceived"]}
RouteInbound ==
  {ResultMsg(FirstMessageId, "ra"), Hello, responseReceived("r1", "https://x", 200, UndefN)}
    \cup Hybrids \cup Unsubscribed

NextRoute ==
  \/ Connect /\ UNCHANGED <<run, peer>>
  \/ SetupConsoleCollection /\ UNCHANGED <<run, peer>>
  \/ SetupNetworkCollection /\ UNCHANGED <<run, peer>>
  \/ \E method \in Methods :
       /\ ConsoleListener \in Range(listeners)
       /\ NetworkListener \in Range(listeners)
       /\ calls = <<>>
       /\ SendCommand(method)
       /\ UNCHANGED <<run, peer>>
  \/ \E m \in RouteInbound :
       /\ ConsoleListener \in Range(listeners)
       /\ NetworkListener \in Range(listeners)
       /\ Len(hist) < MaxRouteDeliveries
       /\ Deliver(m, 1)
       /\ UNCHANGED <<run, peer>>
  \/ \E k \in 1 .. MaxCmds : Timeout(k) /\ UNCHANGED <<run, peer>>
  \/ Tick /\ UNCHANGED <<run, peer>>

SpecRoute == Init /\ [][NextRoute]_vars

(***************************************************************************)
(* Page lookup: a collection command started on every directory of up to   *)
(* MaxTargets distinct targets, among them a worker with a page's title    *)
(* and a page whose id is a piece of other titles, with selectors that     *)
(* match by id, by title, several targets, or nothing.                     *)
(***************************************************************************)
TargetPool ==
  {Target(<<"p", "1">>, <<"a", "b">>, "page"),
   Target(<<"p", "2">>, <<"b", "c">>, "page"),
   Target(<<"w", "1">>, <<"a", "b">>, "service_worker"),
   Target(<<"b">>, <<"x">>, "page")}
Directories ==
  {d \in UNION {[1 .. n -> TargetPool] : n \in 0 .. MaxTargets} :
     \A i, j \in DOMAIN d : d[i] = d[j] => i = j}
Selectors == {<<"b">>, <<"p", "1">>, <<"a", "b">>, <<"w", "1">>, <<"z">>, <<>>}

NextFind ==
  \/ \E op \in Ops, directory \in Directories, ok \in BOOLEAN, idOrTitle \in Selectors :
       FindPage(op, directory, ok, idOrTitle) /\ UNCHANGED peer
  \/ ConnectOpen /\ UNCHANGED peer
  \/ ConnectError /\ UNCHANGED peer

SpecFind == Init /\ [][NextFind]_vars

(***************************************************************************)
(* A whole run of listConsole or listNetwork against a directory of two    *)
(* pages.  Chrome answers the enable command and sends notifications only  *)
(* once the command is out; the continuation of an await runs before the   *)
(* next message or timer; nothing runs after process.exit.                 *)
(***************************************************************************)
ListDirectory ==
  <<Target(<<"p", "1">>, <<"a", "b">>, "page"), Target(<<"p", "2">>, <<"b", "c">>, "page")>>
ListSelectors == {<<"p", "1">>, <<"z">>}
ListInbound ==
  {ResultMsg(FirstMessageId, "ra"), ErrorMsg(FirstMessageId, "Command not found"),
   Hello, ErrorOccurred,
   requestWillBeSent("r1", "https://x", "POST", "fetch", 1),
   responseReceived("r1", "https://x", 200, UndefN)}
Durations == {0, 30}
Tails == {ShowAll, 0, 1, 2}
TypeOptions == {UndefS, "error"}
Listening == run.pc \in {"await", "window"} /\ ~ContinuationDue

NextList ==
  \/ \E op \in Ops, idOrTitle \in ListSelectors : FindPage(op, ListDirectory, TRUE, idOrTitle) /\ UNCHANGED peer
  \/ ConnectOpen /\ UNCHANGED peer
  \/ ConnectError /\ UNCHANGED peer
  \/ SetupCollection /\ UNCHANGED peer
  \/ EnableDomain /\ UNCHANGED peer
  \/ \E m \in ListInbound, r \in 1 .. RandomSpace :
       /\ Listening
       /\ Len(hist) < MaxListDeliveries
       /\ Deliver(m, r)
       /\ UNCHANGED <<run, peer>>
  \/ \E k \in 1 .. MaxCmds : Listening /\ Timeout(k) /\ UNCHANGED <<run, peer>>
  \/ Listening /\ Tick /\ UNCHANGED <<run, peer>>
  \/ \E duration \in Durations : EnableAnswered(duration) /\ UNCHANGED peer
  \/ \E type \in TypeOptions, tail \in Tails : Collect(type, tail) /\ UNCHANGED peer

SpecList == Init /\ [][NextList]_vars

(***************************************************************************)
(* The whole context: commands, both aggregators and the channel's close,  *)
(* fed with responses, notifications of both domains and payloads that do  *)
(* not decode or lack what their handler reads.                            *)
(***************************************************************************)
Malformed ==
  {Garbage,
   NoParamsMsg("Runtime.consoleAPICalled"),
   EmptyParamsMsg("Runtime.exceptionThrown", UndefS),
   EmptyParamsMsg("Network.responseReceived", "r1")}
Inbound ==
  {ResultMsg(FirstMessageId, "ra"),
   consoleAPICalled("log", <<Arg("string", Str("Hello world"), UndefS)>>, 1698234567),
   requestWillBeSent("r1", "https://x", "POST", "fetch", 1),
   responseReceived("r1", "https://x", 200, UndefN)}
    \cup Malformed

Next ==
  \/ Connect /\ UNCHANGED <<run, peer>>
  \/ SetupConsoleCollection /\ UNCHANGED <<run, peer>>
  \/ SetupNetworkCollection /\ UNCHANGED <<run, peer>>
  \/ \E method \in Methods : SendCommand(method) /\ UNCHANGED <<run, peer>>
  \/ \E m \in Inbound, r \in 1 .. RandomSpace : Len(hist) < MaxDeliveries /\ Deliver(m, r) /\ UNCHANGED <<run, peer>>
  \/ \E k \in 1 .. MaxCmds : Timeout(k) /\ UNCHANGED <<run, peer>>
  \/ Tick /\ UNCHANGED <<run, peer>>
  \/ Close /\ UNCHANGED <<run, peer>>

Spec == Init /\ [][Next]_vars

(***************************************************************************)
(* Two requests side by side: both aggregators are registered and the      *)
(* notifications of two request keys and a console call arrive in any      *)
(* interleaving.                                                           *)
(***************************************************************************)
FrameInbound ==
  {Hello,
   requestWillBeSent("r1", "https://y", "GET", "xhr", 2),
   responseReceived("r1", UndefS, 404, 1234),
   loadingFinished("r1", 500),
   requestWillBeSent("r2", "https://x", "POST", "fetch", 1),
   responseReceived("r2", "https://x", 200, UndefN),
   loadingFinished("r2", 4567)}

NextFrame ==
  \/ Connect /\ UNCHANGED <<run, peer>>
  \/ SetupConsoleCollection /\ UNCHANGED <<run, peer>>
  \/ SetupNetworkCollection /\ UNCHANGED <<run, peer>>
  \/ \E m \in FrameInbound :
       /\ ConsoleListener \in Range(listeners)
       /\ NetworkListener \in Range(listeners)
       /\ Len(hist) < MaxFrameDeliveries
       /\ Deliver(m, 1)
       /\ UNCHANGED <<run, peer>>

SpecFrame == Init /\ [][NextFrame]_vars

(***************************************************************************)
(* Two contexts, several connections.  connect can be called again on the  *)
(* same context: the new WebSocket has no listeners yet, while the         *)
(* context's fields stay what they are.  The second context runs the same  *)
(* sendCommand on its own fields and its own channel.                      *)
(***************************************************************************)
Reconnect ==
  /\ ws = "closed"
  /\ ws' = "open"
  /\ listeners' = <<>>
  /\ UNCHANGED <<messageId, calls, timers, sent, now,
                 requests, networkRequests, consoleMessages, escaped, hist>>

(* A counter that every instance of the class shares. *)
thisMessageId_Static(context) == messageId

(* this.messageId, read in a method of the instance context *)
thisMessageId(context) == context.messageId

PeerConnect ==
  /\ peer.ws = "none"
  /\ peer' = [peer EXCEPT !.ws = "open"]

PeerSendCommand(method) ==
  /\ peer.ws # "none"
  /\ Len(peer.calls) < MaxPeerCmds
  /\ LET id == thisMessageId(peer)
         k == Len(peer.calls) + 1
     IN peer' = [peer EXCEPT
                   !.messageId = postIncrement(id),
                   !.calls = Append(@, PendingCall(id, method, now + CommandTimeoutMs, 0)),
                   !.timers = @ \cup {k},
                   !.listeners = Append(@, CmdListener(k, id)),
                   !.sent = Append(@, [id |-> id, method |-> method])]

PeerStore ==
  [Store EXCEPT !.calls = peer.calls, !.timers = peer.timers, !.listeners = peer.listeners]

PeerDeliver(m) ==
  /\ peer.ws = "open"
  /\ LET S == emit(peer.listeners, m, PeerStore, 1)
     IN peer' = [peer EXCEPT !.calls = S.calls, !.timers = S.timers, !.listeners = S.listeners]

SessionInbound == {ResultMsg(i, "ra") : i \in CmdIds}
PeerInbound == {ResultMsg(i, "rb") : i \in 1 .. MaxPeerCmds}

NextSession ==
  \/ Connect /\ UNCHANGED <<run, peer>>
  \/ Reconnect /\ UNCHANGED <<run, peer>>
  \/ Close /\ UNCHANGED <<run, peer>>
  \/ \E method \in Methods : SendCommand(method) /\ UNCHANGED <<run, peer>>
  \/ \E m \in SessionInbound :
       Len(hist) < MaxSessionDeliveries /\ Deliver(m, 1) /\ UNCHANGED <<run, peer>>
  \/ PeerConnect /\ UNCHANGED <<ctx, run>>
  \/ \E method \in Methods : PeerSendCommand(method) /\ UNCHANGED <<ctx, run>>
  \/ \E m \in PeerInbound : PeerDeliver(m) /\ UNCHANGED <<ctx, run>>

SpecSession == Init /\ [][NextSession]_vars

(***************************************************************************)
(* sendCommand statement by statement (lines 136 to 143): the timeout is   *)
(* armed, the listener registered, then JSON.stringify and ws.send run.    *)
(* The send can throw (params that JSON.stringify rejects, a socket that   *)
(* refuses to send): the exception leaves the promise's executor and       *)
(* rejects the promise.  The channel can also answer while ws.send is      *)
(* still running.                                                          *)
(***************************************************************************)
SendThrown == <<"send failed">>

armAndListen(S, k, id) ==
  [S EXCEPT !.timers = @ \cup {k}, !.listeners = Append(@, CmdListener(k, id))]

SendCommandThrows(method) ==
  /\ ws # "none"
  /\ Len(calls) < MaxCmds
  /\ LET id == messageId
         k == Len(calls) + 1
         call == PendingCall(id, method, now + CommandTimeoutMs, Len(hist))
         S == armAndListen([Store EXCEPT !.calls = Append(calls, reject(call, SendThrown))], k, id)
     IN /\ messageId' = postIncrement(messageId)
        /\ calls' = S.calls
        /\ timers' = S.timers
        /\ listeners' = S.listeners
  /\ UNCHANGED <<sent, ws, now, requests, networkRequests, consoleMessages, escaped, hist>>

(* A sendCommand that sends first and registers its listener and timer after. *)
sendAnswered_SendFirst(S, k, id, m) == armAndListen(emit(S.listeners, m, S, 1), k, id)

(* lines 136-143 with the message m emitted inside ws.send *)
sendAnswered(S, k, id, m) ==
  LET A == armAndListen(S, k, id)
  IN emit(A.listeners, m, A, 1)

SendCommandAnswered(method, m) ==
  /\ ws = "open"
  /\ Len(calls) < MaxCmds
  /\ LET id == messageId
         k == Len(calls) + 1
         call == PendingCall(id, method, now + CommandTimeoutMs, Len(hist))
         S == sendAnswered([Store EXCEPT !.calls = Append(calls, call)], k, id, m)
     IN /\ messageId' = postIncrement(messageId)
        /\ calls' = S.calls
        /\ timers' = S.timers
        /\ listeners' = S.listeners
        /\ requests' = S.requests
        /\ networkRequests' = S.networkRequests
        /\ consoleMessages' = S.consoleMessages
        /\ escaped' = IF S.thrown THEN escaped + 1 ELSE escaped
        /\ sent' = Append(sent, [id |-> id, method |-> method])
        /\ hist' = Append(hist, [msg |-> m,
                                 heard |-> {l.kind : l \in Range(listeners)} \cup {"cmd"}])
  /\ UNCHANGED <<ws, now>>

SendInbound ==
  {ResultMsg(i, "ra") : i \in CmdIds} \cup {ErrorMsg(FirstMessageId, "Command not found")}

NextSend ==
  \/ Connect /\ UNCHANGED <<run, peer>>
  \/ \E method \in Methods : SendCommand(method) /\ UNCHANGED <<run, peer>>
  \/ \E method \in Methods : SendCommandThrows(method) /\ UNCHANGED <<run, peer>>
  \/ \E method \in Methods, m \in SendInbound :
       Len(hist) < MaxSendDeliveries /\ SendCommandAnswered(method, m) /\ UNCHANGED <<run, peer>>
  \/ \E m \in SendInbound :
       Len(hist) < MaxSendDeliveries /\ Deliver(m, 1) /\ UNCHANGED <<run, peer>>
  \/ \E k \in 1 .. MaxCmds : Timeout(k) /\ UNCHANGED <<run, peer>>
  \/ Tick /\ UNCHANGED <<run, peer>>

SpecSend == Init /\ [][NextSend]_vars

(***************************************************************************)
(* listNetwork with a type filter: the enable command is answered, the     *)
(* notifications of a fetch request and of an xhr request arrive in any    *)
(* order, a response possibly before its start, and the window of          *)
(* duration 0 ends at any point.                                           *)
(***************************************************************************)
FilterInbound ==
  {ResultMsg(FirstMessageId, "ra"),
   requestWillBeSent("r1", "https://x", "POST", "fetch", 1),
   responseReceived("r1", "https://x", 200, UndefN),
   requestWillBeSent("r2", "https://y", "GET", "xhr", 2),
   responseReceived("r2", "https://y", 404, 1234)}
NetworkTypeOptions == {UndefS, "fetch", "xhr", "font"}

NextFilter ==
  \/ FindPage("listNetwork", ListDirectory, TRUE, <<"p", "1">>) /\ UNCHANGED peer
  \/ ConnectOpen /\ UNCHANGED peer
  \/ SetupCollection /\ UNCHANGED peer
  \/ EnableDomain /\ UNCHANGED peer
  \/ \E m \in FilterInbound :
       /\ Listening
       /\ Len(hist) < MaxFilterDeliveries
       /\ Deliver(m, 1)
       /\ UNCHANGED <<run, peer>>
  \/ EnableAnswered(0) /\ UNCHANGED peer
  \/ \E type \in NetworkTypeOptions : Collect(type, ShowAll) /\ UNCHANGED peer

SpecFilter == Init /\ [][NextFilter]_vars

(***************************************************************************)
(* The enrichment pass of listConsole: every argument that has no value    *)
(* but an objectId is looked up with Runtime.getProperties, and the        *)
(* entry's text is rebuilt from its args.  answers gives, per objectId,    *)
(* what the lookup comes back with: a list of property descriptors, a      *)
(* reply without properties, or a failure.                                 *)
(***************************************************************************)
ObjectArg(description, objectId) ==
  [type |-> "object", value |-> Undefined, description |-> description,
   objectId |-> objectId]

Truthy(s) == s \notin {UndefS, ""}

(* JSON.stringify(p.value.value) of a string or a number *)
JSONstringifyPrimitive(v) ==
  IF v.t = "string" THEN <<"\"", v.s, "\"">> ELSE <<ToString(v.n)>>

NoValue == [has |-> FALSE, value |-> Undefined, description |-> UndefS]
Descriptor(name, enumerable, value) ==
  [name |-> name, enumerable |-> enumerable, value |-> value]

(* p.value?.value !== undefined ? JSON.stringify(p.value.value)            *)
(*                              : (p.value?.description || '...')          *)
propertyValue(p) ==
  IF p.value.has /\ p.value.value.t # "undefined" THEN JSONstringifyPrimitive(p.value.value)
  ELSE IF p.value.has /\ Truthy(p.value.description) THEN <<p.value.description>>
  ELSE <<"...">>

(* `{${entries}${overflow}}` *)
summary(result) ==
  LET enumerable == SelectSeq(result, LAMBDA p : p.enumerable # "false")
      first == SubSeq(enumerable, 1, Min(Len(enumerable), PropertyLimit))
      entries == [i \in DOMAIN first |-> <<first[i].name, ": ">> \o propertyValue(first[i])]
      overflow == IF Len(result) > PropertyLimit THEN <<", ...">> ELSE <<>>
  IN <<"{">> \o join(entries, ", ") \o overflow \o <<"}">>

Failed == [kind |-> "error", result |-> <<>>]
Properties(result) == [kind |-> "result", result |-> result]

LooksUp(arg) == arg.value.t = "undefined" /\ Truthy(Prop(arg, "objectId"))

(* the callback of msg.args.map *)
formatArg(arg, answers) ==
  LET fallback == IF Truthy(arg.description) THEN <<arg.description>> ELSE JSONstringify(arg)
  IN IF arg.value.t # "undefined" THEN <<String(arg.value)>>
     ELSE IF LooksUp(arg)
       THEN IF answers[arg.objectId].kind = "error"
              THEN IF Truthy(arg.description) THEN <<arg.description>> ELSE <<"Object">>
            ELSE IF answers[arg.objectId].result # <<>>
              THEN summary(answers[arg.objectId].result)
            ELSE fallback
     ELSE fallback

Enriches(msg) == msg.hasArgs /\ msg.args # <<>>

(* A pass that adds the formatted text to the text the entry has. *)
enrich_Appends(messages, answers) ==
  [i \in DOMAIN messages |->
     IF Enriches(messages[i])
       THEN [messages[i] EXCEPT
               !.text = @ \o join([j \in DOMAIN messages[i].args |->
                                     formatArg(messages[i].args[j], answers)], " ")]
       ELSE messages[i]]

(* for (const msg of messages) { ... msg.text = formattedArgs.join(' ') } *)
enrich(messages, answers) ==
  [i \in DOMAIN messages |->
     IF Enriches(messages[i])
       THEN [messages[i] EXCEPT
               !.text = join([j \in DOMAIN messages[i].args |->
                                formatArg(messages[i].args[j], answers)], " ")]
       ELSE messages[i]]

(* The objectIds the pass asks for, in the order of its sendCommand calls. *)
RECURSIVE lookupsOf(_)
lookupsOf(args) ==
  IF args = <<>> THEN <<>>
  ELSE (IF LooksUp(Head(args)) THEN <<Head(args).objectId>> ELSE <<>>) \o lookupsOf(Tail(args))
RECURSIVE lookups(_)
lookups(messages) ==
  IF messages = <<>> THEN <<>>
  ELSE (IF Enriches(Head(messages)) THEN lookupsOf(Head(messages).args) ELSE <<>>)
         \o lookups(Tail(messages))

GetProperties(id, answer, at) ==
  IF answer.kind = "error"
    THEN reject(PendingCall(id, "Runtime.getProperties", now + CommandTimeoutMs, at),
                <<"Command not found">>)
    ELSE resolve(PendingCall(id, "Runtime.getProperties", now + CommandTimeoutMs, at), "props")

(* The pass as a whole; the entries are the objects the context's map      *)
(* holds, so the new text is in the store too.  Every lookup is answered   *)
(* before the timeout and nothing else arrives meanwhile.                  *)
Enrich(answers) ==
  /\ ws = "open"
  /\ ConsoleListener \in Range(listeners)
  /\ run.passes < MaxPasses
  /\ LET asked == lookups(getConsoleMessages(Store))
     IN /\ messageId' = messageId + Len(asked)
        /\ sent' = sent \o [i \in DOMAIN asked |->
                              [id |-> messageId + i - 1, method |-> "Runtime.getProperties"]]
        /\ calls' = calls \o [i \in DOMAIN asked |->
                                GetProperties(messageId + i - 1, answers[asked[i]], Len(hist))]
  /\ consoleMessages' = enrich(getConsoleMessages(Store), answers)
  /\ run' = [run EXCEPT !.answers = answers, !.passes = @ + 1]
  /\ UNCHANGED <<timers, listeners, ws, now, requests, networkRequests, escaped, hist>>

(***************************************************************************)
(* Console entries with object arguments, then the pass, once or again.    *)
(* Object o1 has up to MaxProps own properties, the first two of them      *)
(* possibly not enumerable (as the length of an array is not); their       *)
(* values are numbers, strings, objects with a description and accessors   *)
(* without a value.                                                        *)
(***************************************************************************)
ObjectIds == {"o1", "o2"}
ValueAt(i) ==
  CASE i % 4 = 1 -> [has |-> TRUE, value |-> Num(i), description |-> UndefS]
    [] i % 4 = 2 -> [has |-> TRUE, value |-> Str("s"), description |-> UndefS]
    [] i % 4 = 3 -> [has |-> TRUE, value |-> Undefined, description |-> "Array(2)"]
    [] OTHER -> NoValue
PropertyList(n, hidden) ==
  [i \in 1 .. n |->
     Descriptor(ToString(i), IF i \in hidden THEN "false" ELSE IF i = 3 THEN UndefS ELSE "true",
                ValueAt(i))]
Answers ==
  {[o \in ObjectIds |-> IF o = "o1" THEN a1 ELSE a2] :
     a1 \in {Failed} \cup {Properties(PropertyList(n, hidden)) : n \in 0 .. MaxProps,
                                                                 hidden \in {{}, {1, 2}}},
     a2 \in {Failed, Properties(PropertyList(1, {}))}}
AllFailed == [o \in ObjectIds |-> Failed]
Suffixes == {1, 2}
EnrichInbound ==
  {consoleAPICalled("log", <<ObjectArg("Object", "o1")>>, 1698234567),
   consoleAPICalled("warning",
     <<Arg("string", Str("Count:"), UndefS), ObjectArg("Object", "o1"), ObjectArg(UndefS, "o2")>>,
     1698234568),
   consoleAPICalled("log", <<Arg("symbol", Undefined, UndefS)>>, 1698234569),
   exceptionThrown("Uncaught", 3, "https://x", 1698234570)}

NextEnrich ==
  \/ Connect /\ UNCHANGED <<run, peer>>
  \/ SetupConsoleCollection /\ UNCHANGED <<run, peer>>
  \/ \E m \in EnrichInbound, r \in Suffixes :
       /\ ConsoleListener \in Range(listeners)
       /\ run.passes = 0
       /\ Len(hist) < MaxEnrichDeliveries
       /\ Deliver(m, r)
       /\ UNCHANGED <<run, peer>>
  \/ \E answers \in Answers :
       /\ run.passes = 0 \/ answers \in {run.answers, AllFailed}
       /\ Enrich(answers)
       /\ UNCHANGED peer

SpecEnrich == Init /\ [][NextEnrich]_vars

(***************************************************************************)
(* fill(context, selector, value, options): findElement's three commands,  *)
(* DOM.focus, DOM.setAttributeValue, then keyDown and keyUp for every      *)
(* character of the value, each command awaited before the next statement  *)
(* runs.  A command is written with the type and text of its params.       *)
(***************************************************************************)
Command(method, type, text) == [method |-> method, type |-> type, text |-> text]

(* Key events that leave out the keyUp. *)
keyEvents_DownOnly(char) == <<Command("Input.dispatchKeyEvent", "keyDown", char)>>

(* the body of `for (const char of value)` *)
keyEvents(char) ==
  <<Command("Input.dispatchKeyEvent", "keyDown", char),
    Command("Input.dispatchKeyEvent", "keyUp", char)>>

RECURSIVE typeValue(_)
typeValue(value) ==
  IF value = <<>> THEN <<>> ELSE keyEvents(Head(value)) \o typeValue(Tail(value))

findElementCommands ==
  <<Command("DOM.enable", UndefS, UndefS),
    Command("DOM.getDocument", UndefS, UndefS),
    Command("DOM.querySelector", UndefS, UndefS)>>

fillCommands(value) ==
  findElementCommands
    \o <<Command("DOM.focus", UndefS, UndefS), Command("DOM.setAttributeValue", UndefS, "")>>
    \o typeValue(value)

(* What the statement after the await needs of the result: doc.root.nodeId *)
(* of DOM.getDocument, a nodeId other than 0 of DOM.querySelector.         *)
Needs(method) ==
  CASE method = "DOM.getDocument" -> "doc"
    [] method = "DOM.querySelector" -> "node"
    [] OTHER -> "none"
NoRoot == <<"Cannot read properties of undefined (reading 'nodeId')">>
ElementNotFound == <<"Element not found">>
Misses(method, result) ==
  CASE method = "DOM.getDocument" /\ result # "doc" -> NoRoot
    [] method = "DOM.querySelector" /\ result # "node" -> ElementNotFound
    [] OTHER -> <<>>

FillFindPage(value, idOrTitle) ==
  /\ run.pc = "idle"
  /\ LET found == findPage(ListDirectory, TRUE, idOrTitle)
         started == [run EXCEPT !.op = "fill", !.selector = idOrTitle,
                                !.directory = ListDirectory, !.fetched = TRUE,
                                !.value = value]
     IN run' = IF found.thrown THEN exit(started, found.error)
               ELSE [started EXCEPT !.pc = "connect", !.page = found.page]
  /\ UNCHANGED ctx

(* context.sendCommand(ws, method, params), up to its await *)
FillSend ==
  /\ run.op = "fill"
  /\ run.pc = "setup"
  /\ run.step < Len(fillCommands(run.value))
  /\ LET id == messageId
         k == Len(calls) + 1
         command == fillCommands(run.value)[run.step + 1]
     IN /\ messageId' = postIncrement(messageId)
        /\ calls' = Append(calls, PendingCall(id, command.method, now + CommandTimeoutMs, Len(hist)))
        /\ timers' = timers \cup {k}
        /\ listeners' = Append(listeners, CmdListener(k, id))
        /\ sent' = Append(sent, [id |-> id, method |-> command.method,
                                 type |-> command.type, text |-> command.text])
  /\ run' = [run EXCEPT !.pc = "await", !.step = @ + 1]
  /\ UNCHANGED <<ws, now, requests, networkRequests, consoleMessages, escaped, hist>>

(* The await ends: the next statement runs, or the catch does. *)
FillAnswered ==
  /\ run.op = "fill"
  /\ ContinuationDue
  /\ LET call == calls[Len(calls)]
     IN run' = IF call.state = "rejected" THEN exit(run, call.error)
               ELSE IF Misses(call.method, call.value) # <<>>
                 THEN exit(run, Misses(call.method, call.value))
               ELSE [run EXCEPT !.pc = "setup"]
  /\ UNCHANGED ctx

(* outputSuccess('Fill performed', ...) and the finally *)
FillDone ==
  /\ run.op = "fill"
  /\ run.pc = "setup"
  /\ run.step = Len(fillCommands(run.value))
  /\ Close
  /\ run' = [run EXCEPT !.pc = "done", !.closes = @ + 1]

(***************************************************************************)
(* A run of fill for every value of up to MaxValueLen characters: the      *)
(* pending command gets its result, a result that lacks what the next      *)
(* statement reads, a remote error, a late copy of the previous response,  *)
(* or no answer at all.                                                    *)
(***************************************************************************)
Characters == {"a", "b"}
Values == UNION {[1 .. n -> Characters] : n \in 0 .. MaxValueLen}
Awaiting == run.pc = "await" /\ calls[Len(calls)].state = "pending"
FillInbound ==
  IF calls = <<>> THEN {}
  ELSE {ResultMsg(calls[Len(calls)].id, Needs(calls[Len(calls)].method)),
        ResultMsg(calls[Len(calls)].id, "none"),
        ErrorMsg(calls[Len(calls)].id, "Command not found")}
         \cup (IF Len(calls) > 1 THEN {ResultMsg(calls[Len(calls)].id - 1, "none")} ELSE {})

NextFill ==
  \/ \E value \in Values, idOrTitle \in ListSelectors :
       FillFindPage(value, idOrTitle) /\ UNCHANGED peer
  \/ ConnectOpen /\ UNCHANGED peer
  \/ ConnectError /\ UNCHANGED peer
  \/ FillSend /\ UNCHANGED peer
  \/ \E m \in FillInbound :
       /\ Awaiting
       /\ Len(hist) < MaxFillDeliveries
       /\ Deliver(m, 1)
       /\ UNCHANGED <<run, peer>>
  \/ \E k \in DOMAIN calls : Awaiting /\ Timeout(k) /\ UNCHANGED <<run, peer>>
  \/ Awaiting /\ Tick /\ UNCHANGED <<run, peer>>
  \/ FillAnswered /\ UNCHANGED peer
  \/ FillDone /\ UNCHANGED peer

SpecFill == Init /\ [][NextFill]_vars

(***************************************************************************)
(* navigate(context, action, pageIdOrTitle): Page.enable, then for back    *)
(* and forward Page.getNavigationHistory and, when the index allows it,    *)
(* Page.navigateToHistoryEntry; Page.reload for reload; Page.navigate for  *)
(* anything else.  A history is the reply's currentIndex (counted from 0)  *)
(* and entries; a reply without them has has = FALSE.                      *)
(***************************************************************************)
History(currentIndex, entries) ==
  [has |-> TRUE, currentIndex |-> currentIndex, entries |-> entries]
NoHistory == [has |-> FALSE, currentIndex |-> 0, entries |-> <<>>]
Entries(n) == [i \in 1 .. n |-> [id |-> 100 + i]]

CannotNavigate(action) ==
  IF action = "back" THEN <<"Cannot navigate back: already at oldest page">>
  ELSE <<"Cannot navigate forward: already at newest page">>
NoEntryAt == <<"Cannot read properties of undefined (reading 'id')">>
NoEntries == <<"Cannot read properties of undefined (reading 'length')">>
Go(entryId) == [thrown |-> FALSE, error |-> <<>>, entryId |-> entryId]
Stop(error) == [thrown |-> TRUE, error |-> error, entryId |-> 0]

(* history.entries[index] for an index counted from 0 *)
entryAt(history, index) ==
  IF index + 1 \in DOMAIN history.entries THEN Go(history.entries[index + 1].id)
  ELSE Stop(NoEntryAt)

(* Branches that go on to outputSuccess where the index does not allow the move. *)
decide_Silent(action, history) ==
  IF action = "back"
    THEN IF history.has /\ history.currentIndex > 0
           THEN entryAt(history, history.currentIndex - 1)
           ELSE Go(0)
    ELSE IF ~history.has THEN Stop(NoEntries)
         ELSE IF history.currentIndex < Len(history.entries) - 1
           THEN entryAt(history, history.currentIndex + 1)
           ELSE Go(0)

(* the branches of `action === 'back'` and `action === 'forward'` after the *)
(* history arrived: the entry to go to, or the error thrown                *)
decide(action, history) ==
  IF action = "back"
    THEN IF history.has /\ history.currentIndex > 0
           THEN entryAt(history, history.currentIndex - 1)
           ELSE Stop(CannotNavigate(action))
    ELSE IF ~history.has THEN Stop(NoEntries)
         ELSE IF history.currentIndex < Len(history.entries) - 1
           THEN entryAt(history, history.currentIndex + 1)
           ELSE Stop(CannotNavigate(action))

Moves == {"back", "forward"}
SecondCommand(action) ==
  CASE action \in Moves -> "Page.getNavigationHistory"
    [] action = "reload" -> "Page.reload"
    [] OTHER -> "Page.navigate"

NavFindPage(action, idOrTitle) ==
  /\ run.pc = "idle"
  /\ LET found == findPage(ListDirectory, TRUE, idOrTitle)
         started == [run EXCEPT !.op = "navigate", !.selector = idOrTitle,
                                !.directory = ListDirectory, !.fetched = TRUE,
                                !.action = action]
     IN run' = IF found.thrown THEN exit(started, found.error)
               ELSE [started EXCEPT !.pc = "connect", !.page = found.page]
  /\ UNCHANGED ctx

(* context.sendCommand(ws, method, params), up to its await *)
NavSend ==
  /\ run.op = "navigate"
  /\ run.pc = "setup"
  /\ run.step < 3
  /\ LET id == messageId
         k == Len(calls) + 1
         method == CASE run.step = 0 -> "Page.enable"
                     [] run.step = 1 -> SecondCommand(run.action)
                     [] OTHER -> "Page.navigateToHistoryEntry"
         entryId == IF run.step = 2 THEN decide(run.action, run.history).entryId ELSE 0
     IN /\ messageId' = postIncrement(messageId)
        /\ calls' = Append(calls, PendingCall(id, method, now + CommandTimeoutMs, Len(hist)))
        /\ timers' = timers \cup {k}
        /\ listeners' = Append(listeners, CmdListener(k, id))
        /\ sent' = Append(sent, [id |-> id, method |-> method, entryId |-> entryId])
  /\ run' = [run EXCEPT !.pc = "await", !.step = @ + 1]
  /\ UNCHANGED <<ws, now, requests, networkRequests, consoleMessages, escaped, hist>>

(* The await ends: the catch, the branch on the history, or the end.  The  *)
(* end is outputSuccess and the finally.                                   *)
NavAnswered ==
  /\ run.op = "navigate"
  /\ ContinuationDue
  /\ LET call == calls[Len(calls)]
     IN IF call.state = "rejected"
          THEN run' = exit(run, call.error) /\ UNCHANGED ctx
        ELSE IF call.method = "Page.enable"
          THEN run' = [run EXCEPT !.pc = "setup"] /\ UNCHANGED ctx
        ELSE IF call.method = "Page.getNavigationHistory"
          THEN /\ run' = IF decide(run.action, call.value).thrown
                           THEN exit([run EXCEPT !.history = call.value],
                                     decide(run.action, call.value).error)
                           ELSE [run EXCEPT !.history = call.value, !.pc = "setup"]
               /\ UNCHANGED ctx
        ELSE /\ Close
             /\ run' = [run EXCEPT !.pc = "done", !.closes = @ + 1]

(***************************************************************************)
(* A run of navigate for back, forward, reload and a URL, against every    *)
(* history of up to MaxHistory entries with an index inside the list or    *)
(* just outside it, and against a reply that holds no history; the other   *)
(* commands are answered with an empty result.                             *)
(***************************************************************************)
Actions == {"back", "forward", "reload", "https://x"}
Histories ==
  {History(i, Entries(n)) : n \in 0 .. MaxHistory, i \in -1 .. MaxHistory} \cup {NoHistory}
NavResults ==
  IF calls = <<>> THEN {}
  ELSE IF calls[Len(calls)].method = "Page.getNavigationHistory"
    THEN {ResultMsg(calls[Len(calls)].id, h) : h \in Histories}
    ELSE {ResultMsg(calls[Len(calls)].id, NoHistory)}
NavErrors ==
  IF calls = <<>> THEN {} ELSE {ErrorMsg(calls[Len(calls)].id, "Command not found")}

NextNav ==
  \/ \E action \in Actions, idOrTitle \in ListSelectors :
       NavFindPage(action, idOrTitle) /\ UNCHANGED peer
  \/ ConnectOpen /\ UNCHANGED peer
  \/ ConnectError /\ UNCHANGED peer
  \/ NavSend /\ UNCHANGED peer
  \/ \E m \in NavResults : Awaiting /\ Deliver(m, 1) /\ UNCHANGED <<run, peer>>
  \/ \E m \in NavErrors : Awaiting /\ Deliver(m, 1) /\ UNCHANGED <<run, peer>>
  \/ \E k \in DOMAIN calls : Awaiting /\ Timeout(k) /\ UNCHANGED <<run, peer>>
  \/ Awaiting /\ Tick /\ UNCHANGED <<run, peer>>
  \/ NavAnswered /\ UNCHANGED peer

SpecNav == Init /\ [][NextNav]_vars

(***************************************************************************)
(* Vocabulary of the properties.                                           *)
(***************************************************************************)
Calls == DOMAIN calls
After(k) == (calls[k].histAt + 1) .. Len(hist)
Matches(k, i) == hist[i].msg.ok /\ hist[i].msg.id = calls[k].id
FirstMatch(k, i) ==
  /\ i \in After(k)
  /\ Matches(k, i)
  /\ \A j \in After(k) : j < i => ~Matches(k, j)
NoneArrived(k) == \A i \in After(k) : ~Matches(k, i)
TimedOut(k) ==
  calls[k].state = "rejected" /\ calls[k].error = TimeoutError(calls[k].method)
(* The step emits one payload on the channel. *)
Emits == Len(hist') = Len(hist) + 1
Emitted == hist'[Len(hist')].msg

(***************************************************************************)
(* C1.  Whatever the number of outstanding sendCommand calls and the order *)
(* of the responses, a call that resolved holds the result of the first    *)
(* message, emitted after the call was issued, whose id is the id the call *)
(* sent; that message carries no error.                                    *)
(***************************************************************************)
C1_ResolvesWithOwnResult ==
  \A k \in Calls :
    calls[k].state = "resolved" =>
      \E i \in After(k) :
        /\ FirstMatch(k, i)
        /\ ~hist[i].msg.error.has
        /\ calls[k].value = hist[i].msg.result

(* Two calls outstanding together, answered in reverse order with different results. *)
C1_Witness ==
  /\ Len(calls) >= 2
  /\ calls[1].histAt = 0 /\ calls[2].histAt = 0
  /\ Len(hist) >= 2
  /\ hist[1].msg = ResultMsg(calls[2].id, "rb")
  /\ hist[2].msg = ResultMsg(calls[1].id, "ra")
  /\ calls[1].state = "resolved" /\ calls[1].value = "ra"
  /\ calls[2].state = "resolved" /\ calls[2].value = "rb"

(***************************************************************************)
(* C2.  Every call has one of the three outcomes at most once: resolve or  *)
(* reject is invoked once per settled call and never on a pending one's    *)
(* behalf twice; a settled call never changes again; and a message with    *)
(* the id of an already settled call changes no call and no timer.         *)
(***************************************************************************)
C2_OneOutcome ==
  \A k \in Calls :
    /\ calls[k].settles <= 1
    /\ calls[k].state = "pending" <=> calls[k].settles = 0
    /\ calls[k].state \in {"pending", "resolved", "rejected"}
    /\ calls[k].state = "resolved" => calls[k].error = <<>>
    /\ calls[k].state = "rejected" => calls[k].value = UndefS /\ calls[k].error # <<>>
    /\ calls[k].state # "pending" => k \notin timers

C2_Final ==
  /\ \A k \in Calls : calls[k].state # "pending" => calls'[k] = calls[k]
  /\ (Emits /\ Emitted.ok /\
        \E k \in Calls : calls[k].id = Emitted.id /\ calls[k].state # "pending")
       => (calls' = calls /\ timers' = timers)

C2_SettlesOnce == []C2_OneOutcome /\ [][C2_Final]_vars

(* A resolved call whose id came in twice after it was issued. *)
C2_Witness ==
  \E k \in Calls :
    /\ calls[k].state = "resolved"
    /\ Cardinality({i \in After(k) : Matches(k, i)}) >= 2

(***************************************************************************)
(* C3.  A call that got no message with its id keeps its timer armed while *)
(* it is pending and can only end rejected with the timeout error; the     *)
(* timeout rejects once, not before the 30 second window is over; and a    *)
(* call rejected by its timeout stays exactly as it is, whatever arrives   *)
(* later.                                                                  *)
(***************************************************************************)
C3_TimedOutState ==
  \A k \in Calls :
    /\ calls[k].state = "pending" => k \in timers
    /\ (NoneArrived(k) /\ calls[k].state # "pending") => TimedOut(k)
    /\ TimedOut(k) => (calls[k].settles = 1 /\ now >= calls[k].due)

C3_TimeoutFinal == \A k \in Calls : TimedOut(k) => calls'[k] = calls[k]

C3_TimeoutOnce == []C3_TimedOutState /\ [][C3_TimeoutFinal]_vars

(* A call rejected by its timeout, and a message with its id emitted afterwards. *)
C3_Witness ==
  \E k \in Calls :
    /\ TimedOut(k)
    /\ now >= calls[k].due
    /\ \E i \in After(k) : Matches(k, i) /\ hist[i].msg.result # UndefS

(***************************************************************************)
(* C4.  The k-th sendCommand call of a context sends id k: the ids handed  *)
(* to ws.send are 1, 2, 3, ... in call order, whatever became of earlier   *)
(* calls.                                                                  *)
(***************************************************************************)
C4_IdsCountUp ==
  /\ Len(sent) = Len(calls)
  /\ messageId = Len(calls) + 1
  /\ \A k \in Calls : calls[k].id = k /\ sent[k].id = k

(* Ids 1..MaxCmds were sent after an earlier call failed by error or by timeout. *)
C4_Witness ==
  /\ Len(calls) = MaxCmds
  /\ calls[1].state = "rejected"
  /\ calls[1].histAt < calls[MaxCmds].histAt
  /\ sent[MaxCmds].id = MaxCmds

(***************************************************************************)
(* C5.  When a message with an error object and the id of a pending call   *)
(* is emitted, that call is rejected in the same step, with the remote     *)
(* message when the error object has one.                                  *)
(***************************************************************************)
C5_Step ==
  (Emits /\ Emitted.ok /\ Emitted.error.has) =>
    \A k \in Calls :
      (calls[k].state = "pending" /\ calls[k].id = Emitted.id) =>
        /\ calls'[k].state = "rejected"
        /\ calls'[k].value = UndefS
        /\ Emitted.error.message # UndefS => calls'[k].error = <<Emitted.error.message>>

C5_ErrorRejects == [][C5_Step]_vars

(* A call rejected with the remote message. *)
C5_Witness ==
  \E k \in Calls :
    /\ calls[k].state = "rejected"
    /\ calls[k].error = <<"Command not found">>
    /\ \E i \in After(k) : FirstMatch(k, i) /\ hist[i].msg = ErrorMsg(calls[k].id, "Command not found")

(***************************************************************************)
(* C6.  A call resolves only on a message with its id that carries a       *)
(* result field, and with that result: a resolved call's first matching    *)
(* message has a result and the call holds it.                             *)
(***************************************************************************)
C6_ResolvesOnResultOnly ==
  \A k \in Calls :
    calls[k].state = "resolved" =>
      \E i \in After(k) :
        /\ FirstMatch(k, i)
        /\ hist[i].msg.result # UndefS
        /\ calls[k].value = hist[i].msg.result

(***************************************************************************)
(* C7.  When the channel closes, no call is left pending: every call that  *)
(* was pending is rejected by the closing step.                            *)
(***************************************************************************)
C7_Step ==
  (ws = "open" /\ ws' = "closed") => \A k \in Calls : calls'[k].state # "pending"

C7_CloseRejectsPending == [][C7_Step]_vars

(***************************************************************************)
(* C8.  A payload that does not decode, or a notification without the      *)
(* fields its handler reads, is discarded: its emit throws nothing and     *)
(* changes neither the aggregator stores nor any call.                     *)
(***************************************************************************)
LacksFields(m) ==
  \/ ~m.ok
  \/ m.method = "Runtime.consoleAPICalled" /\ (~m.params.has \/ ~m.params.hasArgs)
  \/ m.method = "Runtime.exceptionThrown" /\ (~m.params.has \/ ~m.params.exceptionDetails.has)
  \/ m.method = "Network.requestWillBeSent" /\ (~m.params.has \/ ~m.params.request.has)
  \/ m.method = "Network.responseReceived" /\ (~m.params.has \/ ~m.params.response.has)
  \/ m.method = "Network.loadingFinished" /\ ~m.params.has

C8_Step ==
  (Emits /\ LacksFields(Emitted)) =>
    /\ escaped' = escaped
    /\ consoleMessages' = consoleMessages
    /\ requests' = requests
    /\ networkRequests' = networkRequests
    /\ calls' = calls

C8_MalformedDiscarded == [][C8_Step]_vars

(***************************************************************************)
(* C9.  Network convergence.  From every state the context reaches with    *)
(* the network listener registered, and for every key and every payload    *)
(* of the three notifications, emitting response, start, finish leaves     *)
(* getNetworkRequests with the same entity for the key (url, method,       *)
(* status, type, request and response headers, size) as emitting start,    *)
(* response, finish.                                                       *)
(***************************************************************************)
EmitOn(m, S) == [emit(S.listeners, m, S, 1) EXCEPT !.thrown = FALSE]
EmitAll(m1, m2, m3, S) == EmitOn(m3, EmitOn(m2, EmitOn(m1, S)))
EntitiesOf(k, S) == {e \in Range(getNetworkRequests(S)) : e.id = k}
ClaimedFields(e) ==
  <<e.url, e.method, e.status, e.type, e.requestHeaders, e.responseHeaders, e.size>>
StartPayloads(k) == Starts(k) \cup {EmptyParamsMsg("Network.requestWillBeSent", k)}
ResponsePayloads(k) == Responses(k) \cup {EmptyParamsMsg("Network.responseReceived", k)}

C9_Convergence ==
  NetworkListener \in Range(listeners) =>
    \A k \in Keys :
      \A s \in StartPayloads(k), r \in ResponsePayloads(k), f \in Finishes(k) :
        LET raced == EmitAll(r, s, f, Store)
            canonical == EmitAll(s, r, f, Store)
        IN /\ {ClaimedFields(e) : e \in EntitiesOf(k, raced)}
              = {ClaimedFields(e) : e \in EntitiesOf(k, canonical)}
           /\ Len(raced.networkRequests) = Len(canonical.networkRequests)
           /\ (s \in Starts(k) /\ r \in Responses(k)) =>
                 Cardinality(EntitiesOf(k, raced)) = 1

(* The race happened: response, start, finish of one key were emitted in   *)
(* that order to the network listener and the entity carries all three.    *)
C9_Witness ==
  \E k \in Keys :
    /\ Len(hist) = 3
    /\ "network" \in hist[1].heard
    /\ hist[1].msg \in Responses(k)
    /\ hist[2].msg \in Starts(k)
    /\ hist[3].msg \in Finishes(k)
    /\ \E e \in EntitiesOf(k, Store) :
         /\ e.status = hist[1].msg.params.response.status
         /\ e.url = hist[2].msg.params.request.url
         /\ e.method = "POST"
         /\ e.size = hist[3].msg.params.encodedDataLength

(***************************************************************************)
(* C10.  When the last three payloads emitted to the network listener are  *)
(* the response, the start and the finish of one key, getNetworkRequests   *)
(* holds exactly one entity for the key, with the status of the response,  *)
(* the url and method of the start, the size of the finish and lifecycle   *)
(* state Completed.                                                        *)
(***************************************************************************)
RaceThenFinish(k) ==
  /\ Len(hist) >= 3
  /\ "network" \in hist[Len(hist) - 2].heard
  /\ hist[Len(hist) - 2].msg \in Responses(k)
  /\ hist[Len(hist) - 1].msg \in Starts(k)
  /\ hist[Len(hist)].msg \in Finishes(k)

C10_Assembled(k, e) ==
  /\ e.status = hist[Len(hist) - 2].msg.params.response.status
  /\ e.url = hist[Len(hist) - 1].msg.params.request.url
  /\ e.method = hist[Len(hist) - 1].msg.params.request.method
  /\ e.size = hist[Len(hist)].msg.params.encodedDataLength

C10_RaceCompleted ==
  \A k \in Keys :
    RaceThenFinish(k) =>
      /\ Cardinality({i \in DOMAIN networkRequests : networkRequests[i] = k}) = 1
      /\ \A e \in EntitiesOf(k, Store) :
           C10_Assembled(k, e) /\ Prop(e, "lifecycleState") = "Completed"

(***************************************************************************)
(* C11.  When the last two payloads emitted are the same loadingFinished   *)
(* of a key the table holds, the entity's size is the length of that       *)
(* notification, not a sum, and the table holds one entity for the key.    *)
(***************************************************************************)
Retrievable(k) == k \in Range(networkRequests)
EntriesFor(k) == {i \in DOMAIN networkRequests : networkRequests[i] = k}
Last(n) == hist[Len(hist) - n].msg

Arrived(payloads) == \E i \in DOMAIN hist : hist[i].msg \in payloads

C12_StartRetrievable ==
  \A k \in Keys : Arrived(Starts(k)) => EntitiesOf(k, Store) # {}

(***************************************************************************)
(* C13.  After requestWillBeSent, loadingFinished with length s and then a *)
(* responseReceived without encodedDataLength, all for one key, the        *)
(* retrieved entity's size is s.                                           *)
(***************************************************************************)
C13_FinishBeforeResponse ==
  \A k \in Keys :
    ( /\ Len(hist) = 3
      /\ hist[1].msg \in Starts(k)
      /\ hist[2].msg \in Finishes(k)
      /\ hist[3].msg \in Responses(k)
      /\ hist[3].msg.params.response.encodedDataLength = UndefN ) =>
        \A e \in EntitiesOf(k, Store) : e.size = hist[2].msg.params.encodedDataLength

(***************************************************************************)
(* C14.  A loadingFinished for a key no notification has created an entity *)
(* for changes nothing: no entity appears, and the entities of the other   *)
(* keys and the console store stay as they were.                           *)
(***************************************************************************)
HasEntity(k) == k \in DOMAIN requests
C14_Step ==
  \A k \in Keys :
    (Emits /\ Emitted \in Finishes(k) /\ ~HasEntity(k)) =>
      /\ requests' = requests
      /\ networkRequests' = networkRequests
      /\ getNetworkRequests(Store)' = getNetworkRequests(Store)
      /\ consoleMessages' = consoleMessages
C14_FinishWithoutEntity == [][C14_Step]_vars

(* A console entry and an entity of another key exist when the finish of   *)
(* a key never seen before arrives.                                        *)
C14_Witness ==
  /\ Len(hist) = 3
  /\ hist[1].msg = Hello
  /\ hist[2].msg \in Responses("r2")
  /\ hist[3].msg \in Finishes("r1")
  /\ ~HasEntity("r1")
  /\ Len(consoleMessages) = 1
  /\ Cardinality(EntitiesOf("r2", Store)) = 1

(***************************************************************************)
(* C15.  A requestWillBeSent for a key that already received a response    *)
(* sets url, method, request headers, category and timestamp from its      *)
(* payload and leaves id, status, responseHeaders and size as they were.   *)
(***************************************************************************)
C15_Step ==
  \A k \in Keys :
    (Emits /\ Emitted \in Starts(k) /\ Retrievable(k)) =>
      /\ requests'[k] =
           [requests[k] EXCEPT !.url = Emitted.params.request.url,
                               !.method = Emitted.params.request.method,
                               !.requestHeaders = Emitted.params.request.headers,
                               !.type = Emitted.params.type,
                               !.timestamp = Emitted.params.timestamp * 1000]
      /\ requests'[k].status = requests[k].status
      /\ requests'[k].responseHeaders = requests[k].responseHeaders
      /\ requests'[k].size = requests[k].size
      /\ networkRequests' = networkRequests
C15_StartAfterResponse == [][C15_Step]_vars

(* A response with status 404 and size 1234, then the start. *)
C15_Witness ==
  /\ Len(hist) = 2
  /\ hist[1].msg = responseReceived("r1", UndefS, 404, 1234)
  /\ hist[2].msg = requestWillBeSent("r1", "https://x", "POST", "fetch", 1)
  /\ \E e \in EntitiesOf("r1", Store) :
       /\ e.url = "https://x" /\ e.method = "POST" /\ e.type = "fetch"
       /\ e.timestamp = 1000 /\ e.requestHeaders = "reqHeaders"
       /\ e.status = 404 /\ e.responseHeaders = "respHeaders" /\ e.size = 1234

(***************************************************************************)
(* C16 as stated.  Once an entity's id or url is known (not empty), no     *)
(* notification changes it.                                                *)
(***************************************************************************)
Known(s) == s \notin {UndefS, ""}
C16_KnownStep ==
  \A k \in DOMAIN requests :
    /\ Known(requests[k].id) => requests'[k].id = requests[k].id
    /\ Known(requests[k].url) => requests'[k].url = requests[k].url
C16_Step ==
  \A k \in Keys :
    /\ HasEntity(k) => requests'[k].id = k /\ requests[k].id = k
    /\ (Emits /\ Emitted \in Starts(k)) =>
         /\ requests'[k].url = Emitted.params.request.url
         /\ requests'[k].method = Emitted.params.request.method
         /\ requests'[k].type = Emitted.params.type
         /\ requests'[k].timestamp = Emitted.params.timestamp * 1000
         /\ requests'[k].requestHeaders = Emitted.params.request.headers
    /\ (Emits /\ Emitted \in Responses(k)) =>
         /\ HasEntity(k) => requests'[k].url = requests[k].url
         /\ requests'[k].status = Emitted.params.response.status
         /\ requests'[k].responseHeaders = Emitted.params.response.headers
         /\ Emitted.params.response.encodedDataLength # UndefN =>
              requests'[k].size = Emitted.params.response.encodedDataLength
    /\ (Emits /\ Emitted \in Finishes(k) /\ HasEntity(k)) =>
         /\ requests'[k].url = requests[k].url
         /\ Retrievable(k) => requests'[k].size = Emitted.params.encodedDataLength
C17_Step ==
  \A k \in Keys :
    (Emits /\ Emitted \in Responses(k) /\ Retrievable(k)) =>
      /\ requests'[k].status = Emitted.params.response.status
      /\ requests'[k].responseHeaders = Emitted.params.response.headers
      /\ requests'[k].size =
           IF Emitted.params.response.encodedDataLength # UndefN
             THEN Emitted.params.response.encodedDataLength
             ELSE requests[k].size
      /\ networkRequests' = networkRequests
      /\ Cardinality(EntitiesOf(k, Store))' = 1
      /\ Len(getNetworkRequests(Store))' = Len(getNetworkRequests(Store))
C17_SecondResponse == [][C17_Step]_vars

(* Status 200 without size, then status 404 with size 1234. *)
C17_Witness ==
  /\ Len(hist) = 2
  /\ hist[1].msg = responseReceived("r1", "https://x", 200, UndefN)
  /\ hist[2].msg = responseReceived("r1", UndefS, 404, 1234)
  /\ Len(getNetworkRequests(Store)) = 1
  /\ \E e \in EntitiesOf("r1", Store) : e.status = 404 /\ e.size = 1234

(***************************************************************************)
(* C18.  The network table never holds two entities for one key, every     *)
(* entity's id is its key, and an entity that is retrievable stays         *)
(* retrievable, at the same position, after every step.                    *)
(***************************************************************************)
C18_OnePerKey ==
  /\ \A i, j \in DOMAIN networkRequests :
       networkRequests[i] = networkRequests[j] => i = j
  /\ \A i \in DOMAIN networkRequests :
       getNetworkRequests(Store)[i].id = networkRequests[i]
  /\ \A k \in Keys : Cardinality(EntitiesOf(k, Store)) <= 1
C18_Step ==
  /\ Len(networkRequests') >= Len(networkRequests)
  /\ \A i \in DOMAIN networkRequests : networkRequests'[i] = networkRequests[i]
  /\ \A k \in Keys : EntitiesOf(k, Store) # {} => EntitiesOf(k, Store)' # {}
C18_NoEviction == []C18_OnePerKey /\ [][C18_Step]_vars

(* Two entities, one of which received a second response. *)
C18_Witness ==
  /\ Len(hist) = 3
  /\ hist[1].msg \in Responses("r1")
  /\ hist[2].msg \in Responses("r2")
  /\ hist[3].msg \in Responses("r1")
  /\ networkRequests = <<"r1", "r2">>

(***************************************************************************)
(* C19.  getConsoleMessages returns the entries in the order in which      *)
(* their notifications arrived: the contents returned are, in order, a     *)
(* subsequence of the contents the arrived notifications carry.  The       *)
(* filter by type returns a subsequence of what it is given.               *)
(***************************************************************************)
RECURSIVE IsSubseq(_, _)
IsSubseq(s, t) ==
  IF s = <<>> THEN TRUE
  ELSE IF t = <<>> THEN FALSE
  ELSE IF Head(s) = Head(t) THEN IsSubseq(Tail(s), Tail(t))
  ELSE IsSubseq(s, Tail(t))
Content(e) == [e EXCEPT !.id = NoConsoleMsg.id]
EntryOf(m) ==
  Content(consoleHandler(m, [Store EXCEPT !.consoleMessages = <<>>], 1).consoleMessages[1])
Arrivals == [i \in DOMAIN hist |-> EntryOf(hist[i].msg)]
Returned == [i \in DOMAIN consoleMessages |-> Content(getConsoleMessages(Store)[i])]
ConsoleTypes == {"log", "error"}

C19_ArrivalOrder ==
  /\ IsSubseq(Returned, Arrivals)
  /\ \A t \in ConsoleTypes :
       IsSubseq(filterByType(getConsoleMessages(Store), t), getConsoleMessages(Store))

(***************************************************************************)
(* C20.  Every console notification processed adds one entry: the store    *)
(* holds as many entries as notifications were processed, with pairwise    *)
(* different ids, and no step changes or removes a stored entry.           *)
(***************************************************************************)
C20_Count ==
  /\ Len(consoleMessages) = Len(hist)
  /\ \A i, j \in DOMAIN consoleMessages :
       consoleMessages[i].id = consoleMessages[j].id => i = j
C20_Step ==
  /\ Len(consoleMessages') >= Len(consoleMessages)
  /\ \A i \in DOMAIN consoleMessages : consoleMessages'[i] = consoleMessages[i]
C20_FreshIds == []C20_Count /\ [][C20_Step]_vars

(***************************************************************************)
(* C21.  A message that carries an id changes no console entry and no      *)
(* network entity, whatever method name it carries.                        *)
(***************************************************************************)
C21_Step ==
  (Emits /\ Emitted.ok /\ Emitted.id # NoId) =>
    /\ consoleMessages' = consoleMessages
    /\ requests' = requests
    /\ networkRequests' = networkRequests
C21_IdOnlyCorrelated == [][C21_Step]_vars

(***************************************************************************)
(* C22.  A notification whose method is none of the five subscribed names  *)
(* leaves the console store, the network table, every command with its     *)
(* timer and listener, and the count of escaped exceptions as they were.   *)
(***************************************************************************)
C22_Step ==
  (Emits /\ Emitted.ok /\ Emitted.id = NoId /\ Emitted.method \notin Subscribed) =>
    /\ consoleMessages' = consoleMessages
    /\ requests' = requests
    /\ networkRequests' = networkRequests
    /\ calls' = calls
    /\ timers' = timers
    /\ listeners' = listeners
    /\ escaped' = escaped
C22_UnknownIgnored == [][C22_Step]_vars

(* An unsubscribed notification arrived while a command was pending and    *)
(* both stores held something.                                             *)
C22_Witness ==
  /\ Len(hist) = 3
  /\ hist[3].msg \in Unsubscribed
  /\ hist[3].heard = {"cmd", "console", "network"}
  /\ \E k \in Calls : calls[k].state = "pending" /\ calls[k].histAt < 3
  /\ Len(consoleMessages) = 1
  /\ Len(networkRequests) = 1
  /\ escaped = 0

(***************************************************************************)
(* C23.  Once the connection is closed, no console or network listener is  *)
(* registered on the channel.                                              *)
(***************************************************************************)
C23_UnregisteredAtClose ==
  ws = "closed" =>
    /\ ConsoleListener \notin Range(listeners)
    /\ NetworkListener \notin Range(listeners)

(***************************************************************************)
(* C24.  Once the connection is closed, getConsoleMessages and             *)
(* getNetworkRequests return nothing.                                      *)
(***************************************************************************)
C24_DiscardedAtClose ==
  ws = "closed" =>
    /\ getConsoleMessages(Store) = <<>>
    /\ getNetworkRequests(Store) = <<>>

(***************************************************************************)
(* C30.  The entry a console call adds has as text its arguments in order, *)
(* each mapped to its value when it has one, else to its description when  *)
(* it has one, else to the JSON text of the argument, with one space       *)
(* between neighbours; its source is "console-api" and its type is the     *)
(* type of the notification.                                               *)
(***************************************************************************)
Piece(arg) ==
  CASE arg.value.t = "string" -> <<arg.value.s>>
    [] arg.value.t = "number" -> <<ToString(arg.value.n)>>
    [] arg.value.t = "undefined" /\ arg.description # UndefS -> <<arg.description>>
    [] OTHER -> <<"{\"type\":\"", arg.type, "\"}">>
RECURSIVE Spaced(_)
Spaced(args) ==
  IF args = <<>> THEN <<>>
  ELSE Piece(Head(args)) \o (IF Tail(args) = <<>> THEN <<>> ELSE <<" ">> \o Spaced(Tail(args)))
StoredAs(id) == {e \in Range(consoleMessages') : e.id = id}
NewEntry == CHOOSE e \in StoredAs(<<now, 1>>) : TRUE

C30_Step ==
  (Emits /\ Emitted \in ArgInbound) =>
    /\ Cardinality(StoredAs(<<now, 1>>)) = 1
    /\ NewEntry.text = Spaced(Emitted.params.args)
    /\ NewEntry.source = "console-api"
    /\ NewEntry.type = Emitted.params.type
    /\ NewEntry.args = Emitted.params.args
C30_ConsoleText == [][C30_Step]_vars

(* console.warn(0, Symbol()) and the like: a value that wins over its      *)
(* description, followed by an argument that has neither.                  *)
C30_Witness ==
  /\ Len(hist) = 1
  /\ hist[1].msg.params.args = <<Arg("number", Num(0), "zero"), Arg("symbol", Undefined, UndefS)>>
  /\ Len(consoleMessages) = 1
  /\ consoleMessages[1].text = <<"0", " ", "{\"type\":\"", "symbol", "\"}">>
  /\ consoleMessages[1].source = "console-api"
  /\ consoleMessages[1].type = "warning"

(***************************************************************************)
(* C25.  When a collection command has taken its snapshot: the aggregator  *)
(* listener heard every message delivered since the enable command was     *)
(* sent, the snapshot was taken no earlier than the end of the window, and *)
(* every console or network notification delivered since the enable        *)
(* command was sent is in the snapshot (a console notification as an entry *)
(* with its content, a network notification as an entity with its key).    *)
(***************************************************************************)
Aggregator == IF run.op = "listConsole" THEN "console" ELSE "network"
Window == (run.enableAt + 1) .. run.snapshotAt
InSnapshot(m) ==
  CASE run.op = "listConsole" /\ m.id = NoId
         /\ m.method \in {"Runtime.consoleAPICalled", "Runtime.exceptionThrown"} ->
           \E i \in DOMAIN run.snapshot : Content(run.snapshot[i]) = EntryOf(m)
    [] run.op = "listNetwork" /\ m.id = NoId
         /\ m.method \in {"Network.requestWillBeSent", "Network.responseReceived"} ->
           \E i \in DOMAIN run.snapshot : run.snapshot[i].id = m.params.requestId
    [] OTHER -> TRUE
C25_Order ==
  run.pc = "done" =>
    /\ \A i \in Window : Aggregator \in hist[i].heard
    /\ run.snapshotAt = Len(hist)
    /\ now >= run.windowEnd
C25_AllInSnapshot ==
  run.pc = "done" => \A i \in Window : InSnapshot(hist[i].msg)
C25_WindowSnapshot == C25_Order /\ C25_AllInSnapshot

(***************************************************************************)
(* C26.  When the directory holds no page that the selector matches, the   *)
(* command has ended with "Page not found" and exit code 1, connect was    *)
(* not called, no channel exists and no command was sent.                  *)
(***************************************************************************)
Contains(text, part) ==
  \E i, j \in 0 .. Len(text) : i <= j /\ SubSeq(text, i + 1, j) = part
Selected(target, selector) ==
  target.type = "page" /\ (target.id = selector \/ Contains(target.title, selector))
Candidates == {i \in DOMAIN run.directory : Selected(run.directory[i], run.selector)}
LookedUp == run.pc # "idle" /\ run.fetched

C26_NotFoundBeforeConnect ==
  (LookedUp /\ Candidates = {}) =>
    /\ run.pc = "exited"
    /\ run.exitCode = 1
    /\ run.error = <<"Page not found: ", run.selector>>
    /\ run.connects = 0
    /\ ws = "none"
    /\ sent = <<>>
    /\ calls = <<>>

(* The selector is the id of a worker: no page matches. *)
C26_Witness ==
  /\ run.selector = <<"w", "1">>
  /\ \E i \in DOMAIN run.directory : run.directory[i].id = <<"w", "1">>
  /\ Len(run.directory) > 1
  /\ run.pc = "exited"
  /\ run.error = <<"Page not found: ", <<"w", "1">>>>
  /\ ws = "none"

(***************************************************************************)
(* C27.  findPage returns the first target of the directory that is a page *)
(* and whose id is the selector or whose title contains it, and fails      *)
(* exactly when the directory has no such target.                          *)
(***************************************************************************)
First(S) == CHOOSE i \in S : \A j \in S : i <= j
C27_FirstMatchingPage ==
  LookedUp =>
    IF Candidates = {}
      THEN run.page = NoPage /\ run.error = <<"Page not found: ", run.selector>>
      ELSE /\ run.page = run.directory[First(Candidates)]
           /\ run.page.type = "page"
           /\ run.error # <<"Page not found: ", run.selector>>

(* A worker with the title, a page matching by id and a page matching by   *)
(* title, in this order: the page matching by id is found.                 *)
C27_Witness ==
  /\ run.selector = <<"b">>
  /\ Len(run.directory) = 3
  /\ run.directory[1].type = "service_worker"
  /\ run.directory[2].id = <<"b">>
  /\ run.directory[3].id = <<"p", "2">>
  /\ run.page = run.directory[2]
  /\ run.pc = "connect"

(***************************************************************************)
(* C28.  When a collection command that opened a channel has ended,        *)
(* whether at its end or with an error, it has called ws.close.            *)
(***************************************************************************)
C28_ClosedOnEveryPath ==
  (run.pc \in {"done", "exited"} /\ ws # "none") => run.closes >= 1 /\ ws = "closed"

(***************************************************************************)
(* C29.  listConsole with tail N other than -1 outputs the last            *)
(* min(N, total) of the filtered messages, in their order, so at most N;   *)
(* with N = -1 it outputs all of them.                                     *)
(***************************************************************************)
LastOf(messages, n) == [i \in 1 .. n |-> messages[Len(messages) - n + i]]
C29_TailLimit ==
  (run.pc = "done" /\ run.op = "listConsole") =>
    IF run.tail = ShowAll THEN run.output = run.filtered
    ELSE /\ run.output = LastOf(run.filtered, Min(run.tail, Len(run.filtered)))
         /\ Len(run.output) <= run.tail

(***************************************************************************)
(* C37.  A message whose id is the id of no pending command settles no     *)
(* command and leaves the pending commands, the id counter, the console    *)
(* store and the network table as they were.                               *)
(***************************************************************************)
PendingIds == {calls[k].id : k \in {j \in Calls : calls[j].state = "pending"}}
C37_Step ==
  (Emits /\ Emitted.ok /\ Emitted.id # NoId /\ Emitted.id \notin PendingIds) =>
    /\ calls' = calls
    /\ messageId' = messageId
    /\ consoleMessages' = consoleMessages
    /\ requests' = requests
    /\ networkRequests' = networkRequests
C37_UnmatchedChangesNothing == [][C37_Step]_vars

(***************************************************************************)
(* C38.  A start, response or finish notification for key k leaves the     *)
(* entity of every other key as it was, field by field and in its place in *)
(* the table, and leaves every console entry as it was.                    *)
(***************************************************************************)
NetworkMethods ==
  {"Network.requestWillBeSent", "Network.responseReceived", "Network.loadingFinished"}
C38_Step ==
  (Emits /\ Emitted.ok /\ Emitted.method \in NetworkMethods) =>
    /\ \A other \in (DOMAIN requests) \ {Emitted.params.requestId} :
         /\ other \in DOMAIN requests'
         /\ requests'[other] = requests[other]
         /\ EntriesFor(other)' = EntriesFor(other)
    /\ consoleMessages' = consoleMessages
C38_OtherKeysUntouched == [][C38_Step]_vars

(* Requests r1 and r2 are both in the table, r2 changed last, and a console *)
(* entry is held.                                                          *)
C38_Witness ==
  /\ Len(hist) = 3
  /\ Len(consoleMessages) = 1
  /\ Retrievable("r1")
  /\ Last(0) = responseReceived("r2", "https://x", 200, UndefN)
  /\ requests["r1"].status = 404
  /\ requests["r2"].status = 200

(***************************************************************************)
(* C33.  Each CDPContext counts its own command ids: the i-th command of a *)
(* context carries id i whatever the other context has sent, a command     *)
(* issued on one context leaves the other context's counter alone, and a   *)
(* context's counter never goes down or back to its first value, also when *)
(* the context opens a further connection.                                 *)
(***************************************************************************)
CountsFromFirst(outbox) == \A i \in DOMAIN outbox : outbox[i].id = FirstMessageId + i - 1
C33_Ids ==
  /\ CountsFromFirst(sent)
  /\ CountsFromFirst(peer.sent)
  /\ messageId = FirstMessageId + Len(sent)
  /\ peer.messageId = FirstMessageId + Len(peer.sent)
C33_Step ==
  /\ messageId' >= messageId
  /\ peer.messageId' >= peer.messageId
  /\ sent' # sent => peer' = peer
  /\ peer.sent' # peer.sent => messageId' = messageId /\ sent' = sent
  /\ (ws = "closed" /\ ws' = "open") => messageId' = messageId
C33_CounterPerContext == []C33_Ids /\ [][C33_Step]_vars

(* The context sent command 1 on its first connection and command 2 on a   *)
(* second one, whose socket does not carry the first command's listener;   *)
(* the other context sent its own commands 1 and 2 meanwhile.              *)
C33_Witness ==
  /\ Len(sent) = 2
  /\ ws = "open"
  /\ CmdListener(1, 1) \notin Range(listeners)
  /\ CmdListener(2, 2) \in Range(listeners)
  /\ calls[1].state = "pending"
  /\ 1 \in timers
  /\ Len(peer.sent) = 2
  /\ peer.sent[2].id = 2

(***************************************************************************)
(* C35.  A sendCommand call that has settled, whether by a result, a       *)
(* remote error, the timeout or a send that failed, has its message        *)
(* listener off the channel.                                               *)
(***************************************************************************)
C35_ListenerGoneOnceSettled ==
  \A k \in Calls :
    calls[k].state # "pending" => CmdListener(k, calls[k].id) \notin Range(listeners)

(***************************************************************************)
(* C36.  A response that the channel delivers while ws.send is still       *)
(* running reaches the call's listener: a response with the call's id      *)
(* settles the call within the same step, with the response's result or    *)
(* remote error, and takes the call's timer and listener away.             *)
(***************************************************************************)
SentNow == Len(calls') = Len(calls) + 1 /\ Len(sent') = Len(sent) + 1
NewCall == calls'[Len(calls')]
C36_Step ==
  (SentNow /\ Emits /\ Emitted.id = NewCall.id) =>
    /\ IF Emitted.error.has
         THEN NewCall.state = "rejected" /\ NewCall.error = RemoteError(Emitted.error)
         ELSE NewCall.state = "resolved" /\ NewCall.value = Emitted.result
    /\ Len(calls') \notin timers'
    /\ CmdListener(Len(calls'), NewCall.id) \notin Range(listeners')
C36_HeardDuringSend == [][C36_Step]_vars

(* Command 2 was answered with a result while it was being sent, command 1 *)
(* being still pending.                                                    *)
C36_Witness ==
  /\ Len(calls) = 2
  /\ Len(hist) = 1
  /\ calls[2].histAt = 0
  /\ hist[1].msg = ResultMsg(2, "ra")
  /\ calls[2].state = "resolved"
  /\ calls[1].state = "pending"

(***************************************************************************)
(* C34.  What listNetwork returns under a type filter is exactly the       *)
(* entities of the table whose type is the filter, in table order and each *)
(* once; without a filter it is the whole table.                           *)
(***************************************************************************)
Table == getNetworkRequests(Store)
OfType(type) == {i \in DOMAIN Table : Table[i].type = type}
Passes == run.passes' = run.passes + 1
C31_Step ==
  Passes =>
    /\ Len(consoleMessages') = Len(consoleMessages)
    /\ \A i \in DOMAIN consoleMessages :
         [consoleMessages'[i] EXCEPT !.text = consoleMessages[i].text] = consoleMessages[i]
    /\ (run.passes >= 1 /\ run.answers' = run.answers) => consoleMessages' = consoleMessages
C31_EnrichmentKeepsEntries == [][C31_Step]_vars

(* Two passes with the same answers over two entries, the second of which  *)
(* shows a string, the summary of o1 and the fallback of o2.               *)
C31_Witness ==
  /\ run.passes = 2
  /\ Len(consoleMessages) = 2
  /\ consoleMessages[1].source = "exception"
  /\ Len(consoleMessages[2].args) = 3
  /\ run.answers["o1"] = Properties(PropertyList(2, {}))
  /\ run.answers["o2"] = Failed
  /\ consoleMessages[2].text =
       <<"Count:", " ", "{", "1", ": ", "1", ", ", "2", ": ", "\"", "s", "\"", "}", " ", "Object">>
  /\ Len(sent) = 4

(***************************************************************************)
(* C32.  The summary of an object lists at most 10 properties, and it      *)
(* ends with the overflow marker exactly when the object has more than 10  *)
(* properties that would be listed, that is, enumerable ones.              *)
(***************************************************************************)
Marker == ", ..."
ListedIn(text) == Cardinality({i \in DOMAIN text : text[i] = ": "})
Listable(result) == Cardinality({i \in DOMAIN result : result[i].enumerable # "false"})
Summarised ==
  {e \in Range(consoleMessages) :
     /\ run.passes >= 1
     /\ Enriches(e)
     /\ Len(e.args) = 1
     /\ LooksUp(e.args[1])
     /\ run.answers[e.args[1].objectId].kind = "result"
     /\ run.answers[e.args[1].objectId].result # <<>>}
C32_AtMostTen ==
  \A e \in Summarised : ListedIn(e.text) <= PropertyLimit
C32_OverflowMarker ==
  /\ C32_AtMostTen
  /\ \A e \in Summarised :
       Marker \in Range(e.text) <=>
         Listable(run.answers[e.args[1].objectId].result) > PropertyLimit

(***************************************************************************)
(* C39.  For a value of n characters fill sends, after DOM.focus and the   *)
(* clearing DOM.setAttributeValue, keyDown and then keyUp of the first     *)
(* character, then of the second, and so on: 2n key events when it         *)
(* completes and a prefix of them when it fails.  A command is sent only   *)
(* when every earlier command has been answered with a result, so at most  *)
(* one command is pending at any time.                                     *)
(***************************************************************************)
KeyEvents == SelectSeq(sent, LAMBDA c : c.method = "Input.dispatchKeyEvent")
Typed(value) ==
  [i \in 1 .. 2 * Len(value) |->
     [type |-> IF i % 2 = 1 THEN "keyDown" ELSE "keyUp", text |-> value[(i + 1) \div 2]]]
PendingNow == {k \in Calls : calls[k].state = "pending"}
C39_Sent ==
  run.op = "fill" =>
    /\ Len(KeyEvents) <= 2 * Len(run.value)
    /\ \A i \in DOMAIN KeyEvents :
         /\ KeyEvents[i].type = Typed(run.value)[i].type
         /\ KeyEvents[i].text = Typed(run.value)[i].text
    /\ run.pc = "done" => Len(KeyEvents) = 2 * Len(run.value)
    /\ KeyEvents # <<>> =>
         /\ sent[Len(sent) - Len(KeyEvents) - 1].method = "DOM.focus"
         /\ sent[Len(sent) - Len(KeyEvents)].method = "DOM.setAttributeValue"
    /\ Cardinality(PendingNow) <= 1
C39_Step ==
  (run.op = "fill" /\ Len(sent') = Len(sent) + 1) =>
    \A k \in Calls : calls[k].state = "resolved"
C39_KeyEventsInOrder == []C39_Sent /\ [][C39_Step]_vars

(* fill of the value "ab" completed: nine commands, the last four keyDown  *)
(* a, keyUp a, keyDown b, keyUp b.                                         *)
C39_Witness ==
  /\ run.op = "fill"
  /\ run.pc = "done"
  /\ run.value = <<"a", "b">>
  /\ Len(sent) = 9
  /\ sent[6].type = "keyDown" /\ sent[6].text = "a"
  /\ sent[7].type = "keyUp" /\ sent[7].text = "a"
  /\ sent[8].type = "keyDown" /\ sent[8].text = "b"
  /\ sent[9].type = "keyUp" /\ sent[9].text = "b"
  /\ \A k \in Calls : calls[k].state = "resolved"

(***************************************************************************)
(* C40.  navigate sends Page.navigateToHistoryEntry for back only when the *)
(* current index is greater than 0 and for forward only when it is less    *)
(* than the last index; the entry it names is the entry of the history     *)
(* list one place before, or after, the current one.  When the history     *)
(* arrived and the index does not allow the move, the command has ended    *)
(* with an error and has sent nothing after the history request.           *)
(***************************************************************************)
Allows(action, history) ==
  /\ history.has
  /\ action = "back" => history.currentIndex > 0
  /\ action = "forward" => history.currentIndex < Len(history.entries) - 1
Neighbour(action, history) ==
  IF action = "back" THEN history.currentIndex ELSE history.currentIndex + 2
HistoryArrived ==
  /\ Len(calls) >= 2
  /\ calls[2].method = "Page.getNavigationHistory"
  /\ calls[2].state = "resolved"
  /\ ~ContinuationDue
C40_HistoryMoves ==
  run.op = "navigate" =>
    /\ \A i \in DOMAIN sent :
         sent[i].method = "Page.navigateToHistoryEntry" =>
           /\ run.action \in Moves
           /\ Allows(run.action, calls[2].value)
           /\ Neighbour(run.action, calls[2].value) \in DOMAIN calls[2].value.entries
           /\ sent[i].entryId =
                calls[2].value.entries[Neighbour(run.action, calls[2].value)].id
    /\ (HistoryArrived /\ ~Allows(run.action, calls[2].value)) =>
         /\ run.pc = "exited"
         /\ run.exitCode = 1
         /\ run.error # <<>>
         /\ Len(sent) = 2

(* navigate back from the second of two entries went to the first one and  *)
(* completed.                                                              *)
C40_Witness ==
  /\ run.op = "navigate"
  /\ run.action = "back"
  /\ run.pc = "done"
  /\ calls[2].value = History(1, Entries(2))
  /\ Len(sent) = 3
  /\ sent[3].method = "Page.navigateToHistoryEntry"
  /\ sent[3].entryId = Entries(2)[1].id

====
